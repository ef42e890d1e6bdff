----------------------------- MODULE Access_proofs -----------------------------
(***************************************************************************)
(* What Requests promises of the subscriptions of an organization, of the  *)
(* roles in it and in its project, and of the caps of its plans, for any   *)
(* people, plans, periods and number of rows.                              *)
(***************************************************************************)
EXTENDS Requests, FiniteSetTheorems, WellFoundedInduction, TLAPS

-----------------------------------------------------------------------------
(* The invariant of the periods.                                           *)

\* Packages that count on are open; those that were closed began before now, and the
\* quantity ordered is that of the open one.
Open(i) == {p \in packages : p.sub = i /\ p.until = Never}

PackagesInv ==
    /\ StorablePackages(packages)
    /\ \A p \in packages : p.since < Never /\ (p.until # Never => p.since < now)
    /\ \A i \in DOMAIN subs :
          /\ \A p \in Open(i) : ordered[i] = p.quantity
          /\ Open(i) = {} => ordered[i] = 0

SubscriptionsInv == Storable(subs) /\ PackagesInv

\* A subscription of the account.
SubRow == [plan : Plans, since : Times, until : Times]

\* Rows that are stored, the first of them those there were.
Grows(rows, more) ==
    /\ more \in Seq(SubRow) /\ Storable(more)
    /\ Len(rows) <= Len(more) /\ \A i \in 1..Len(rows) : more[i] = rows[i]

LEMMA Instants ==
    /\ SecondTicks \in Nat \ {0} /\ TrialTicks \in Nat \ {0} /\ Horizon \in Nat /\ Never \in Nat
    /\ Times \subseteq Nat /\ Never \in Times
    /\ \A t \in Times : t <= Never /\ (t # Never => t <= Horizon + SecondTicks + TrialTicks)
    /\ \A t \in 0..Horizon :
          /\ t \in Times /\ t + SecondTicks \in Times /\ t + TrialTicks \in Times
          /\ t < Never /\ t + SecondTicks < Never /\ t + TrialTicks < Never
    /\ \A t \in 0..(Horizon + SecondTicks) : t \in Times /\ t < Never
    BY SubscriptionsAssumption DEF Times

LEMMA FloorBelow == ASSUME NEW t \in Nat PROVE Floor(t) \in 0..t
<1>1. SecondTicks \in Nat \ {0}
    BY SubscriptionsAssumption
<1>2. t % SecondTicks \in 0..t
    <2>1. t % SecondTicks \in 0..(SecondTicks - 1)
        BY <1>1
    <2>2. t \div SecondTicks \in Nat
        BY <1>1
    <2>3. t = SecondTicks * (t \div SecondTicks) + (t % SecondTicks)
        BY <1>1
    <2>4. SecondTicks * (t \div SecondTicks) \in Nat
        BY <1>1, <2>2
    <2> QED BY <2>1, <2>3, <2>4
<1> QED BY <1>2 DEF Floor

\* A row is created at the end of the rows there are, or it is not.
LEMMA RowCreated ==
    ASSUME NEW rows \in Seq(SubRow), Storable(rows),
           NEW plan \in Plans, NEW since \in Times, NEW until \in Times,
           NEW made, made = CreateRow(rows, plan, since, until)
    PROVE  /\ Grows(rows, made.rows)
           /\ \/ made.sub = 0
              \/ /\ made.sub = Len(rows) + 1
                 /\ made.rows = Append(rows, [plan |-> plan, since |-> since, until |-> until])
<1> DEFINE row == [plan |-> plan, since |-> since, until |-> until]
           more == Append(rows, row)
<1>1. row \in SubRow
    BY DEF SubRow
<1>2. more \in Seq(SubRow) /\ Len(more) = Len(rows) + 1 /\ \A i \in 1..Len(rows) : more[i] = rows[i]
    BY <1>1
<1>3. CASE Saves(more, Len(more))
    <2>1. made.rows = more /\ made.sub = Len(more)
        BY <1>3 DEF CreateRow
    <2> QED BY <1>2, <1>3, <2>1 DEF Saves, Grows
<1>4. CASE ~Saves(more, Len(more))
    <2>1. made.rows = rows /\ made.sub = 0
        BY <1>4 DEF CreateRow, Failed
    <2> QED BY <2>1 DEF Grows
<1> QED BY <1>3, <1>4

\* create_subscription: whoever gets a row that begins now leaves a current one.
LEMMA SubscriptionCreated ==
    ASSUME NEW rows \in Seq(SubRow), Storable(rows), now \in 0..Horizon,
           NEW plan \in Plans, NEW at \in {now, Never}, plan \in Trial => at # Never,
           NEW made, made = CreateSubscription(rows, plan, at)
    PROVE  /\ Grows(rows, made.rows) /\ made.sub \in 0..Len(made.rows)
           /\ made.sub # 0 /\ at = now => Current(made.rows) # {}
<1> DEFINE since == IF at = Never THEN Never ELSE Floor(at)
<1>1. /\ now \in Nat /\ Horizon \in Nat /\ Never \in Nat /\ now < Never /\ now # Never
      /\ Floor(now) \in Nat /\ Floor(now) <= now /\ Floor(now) \in 0..Horizon
      /\ TrialTicks \in Nat
    <2>1. /\ now \in Nat /\ now <= Horizon /\ Horizon \in Nat /\ Never \in Nat /\ now < Never
          /\ TrialTicks \in Nat
        BY Instants
    <2>2. Floor(now) \in 0..now
        BY <2>1, FloorBelow
    <2> QED BY <2>1, <2>2
<1>2. since \in Times /\ Never \in Times /\ (at = now => since = Floor(now))
    BY <1>1, Instants
<1>3. CASE plan \notin Trial
    <2>1. made = CreateRow(rows, plan, since, Never)
        BY <1>3 DEF CreateSubscription
    <2>2. /\ Grows(rows, made.rows)
          /\ \/ made.sub = 0
             \/ /\ made.sub = Len(rows) + 1
                /\ made.rows = Append(rows, [plan |-> plan, since |-> since, until |-> Never])
        BY <1>2, <2>1, RowCreated
    <2>3. CASE made.sub = 0
        BY <2>2, <2>3 DEF Grows
    <2>4. CASE made.sub # 0
        <3>1. PICK row : row = [plan |-> plan, since |-> since, until |-> Never]
            OBVIOUS
        <3>2. row \in SubRow /\ row.since = since /\ row.until = Never
            BY <1>2, <3>1 DEF SubRow
        <3>3. /\ made.rows[made.sub] = row /\ Len(made.rows) = Len(rows) + 1
              /\ made.sub \in DOMAIN made.rows
            BY <2>2, <2>4, <3>1, <3>2
        <3>4. at = now => made.sub \in Current(made.rows)
            <4>1. at = now => InPeriod(row)
                BY <1>1, <1>2, <3>2 DEF InPeriod
            <4> QED BY <3>3, <4>1 DEF Current
        <3> QED BY <2>2, <3>3, <3>4
    <2> QED BY <2>3, <2>4
<1>4. CASE plan \in Trial
    <2>1. at = now /\ since = Floor(now) /\ since + TrialTicks \in Times
        BY <1>1, <1>2, <1>4, Instants
    <2>2. PICK trial : trial = CreateRow(rows, plan, since, since + TrialTicks)
        OBVIOUS
    <2>3. /\ Grows(rows, trial.rows)
          /\ \/ trial.sub = 0
             \/ /\ trial.sub = Len(rows) + 1
                /\ trial.rows = Append(rows, [plan |-> plan, since |-> since, until |-> since + TrialTicks])
        BY <1>2, <2>1, <2>2, RowCreated
    <2>4. CASE trial.sub = 0
        <3>1. made = trial
            BY <1>4, <2>2, <2>4 DEF CreateSubscription
        <3> QED BY <2>3, <2>4, <3>1 DEF Grows
    <2>5. CASE trial.sub # 0
        <3>1. made = CreateRow(trial.rows, DefaultPlan, since + TrialTicks, Never)
            BY <1>4, <2>2, <2>5 DEF CreateSubscription
        <3>2. DefaultPlan \in Plans /\ trial.rows \in Seq(SubRow) /\ Storable(trial.rows)
            BY <2>3, SubscriptionsAssumption DEF Grows
        <3>3. /\ Grows(trial.rows, made.rows)
              /\ \/ made.sub = 0
                 \/ /\ made.sub = Len(trial.rows) + 1
                    /\ made.rows = Append(trial.rows, [plan |-> DefaultPlan,
                                                       since |-> since + TrialTicks, until |-> Never])
            BY <1>2, <2>1, <3>1, <3>2, RowCreated
        <3>4. Grows(rows, made.rows)
            BY <2>3, <3>3 DEF Grows
        <3>5. CASE made.sub = 0
            BY <3>3, <3>4, <3>5 DEF Grows
        <3>6. CASE made.sub # 0
            <4>1. PICK row, next :
                     /\ row = [plan |-> plan, since |-> since, until |-> since + TrialTicks]
                     /\ next = [plan |-> DefaultPlan, since |-> since + TrialTicks, until |-> Never]
                OBVIOUS
            <4>2. /\ row \in SubRow /\ row.since = since /\ row.until = since + TrialTicks
                  /\ next \in SubRow /\ next.since = since + TrialTicks /\ next.until = Never
                BY <1>2, <2>1, <3>2, <4>1 DEF SubRow
            <4>3. /\ trial.rows[trial.sub] = row /\ trial.sub \in 1..Len(trial.rows)
                BY <2>3, <2>5, <4>1, <4>2
            <4>4. /\ made.rows[made.sub] = next /\ made.sub \in DOMAIN made.rows
                  /\ made.rows[trial.sub] = row /\ trial.sub \in DOMAIN made.rows
                  /\ made.sub \in 0..Len(made.rows)
                BY SMTT(60), <3>2, <3>3, <3>6, <4>1, <4>2, <4>3 DEF Grows
            <4>5. InPeriod(row) \/ InPeriod(next)
                BY <1>1, <2>1, <4>2 DEF InPeriod
            <4>6. Current(made.rows) # {}
                BY <4>4, <4>5 DEF Current
            <4> QED BY <3>4, <4>4, <4>6
        <3> QED BY <3>5, <3>6
    <2> QED BY <2>4, <2>5
<1> QED BY <1>3, <1>4

\* Either there is one current subscription, and it is found, or there are more, and
\* none is, or there is none.
LEMMA CurrentCounted ==
    ASSUME NEW rows \in Seq(SubRow)
    PROVE  \/ /\ \E i \in DOMAIN rows : Current(rows) = {i}
              /\ GetOrCreate(rows) = {[rows |-> rows, sub |-> i] : i \in Current(rows)}
           \/ /\ \E i, j \in Current(rows) : i # j
              /\ GetOrCreate(rows) = {Failed(rows)}
           \/ /\ Current(rows) = {}
              /\ GetOrCreate(rows) = {CreateSubscription(rows, plan, now) : plan \in NextPlan(rows)}
<1>1. IsFiniteSet(Current(rows)) /\ Cardinality(Current(rows)) \in Nat
    <2>1. DOMAIN rows = 1..Len(rows) /\ Len(rows) \in Nat
        OBVIOUS
    <2>2. IsFiniteSet(DOMAIN rows)
        BY <2>1, FS_Interval
    <2> QED BY <2>2, FS_Subset, FS_CardinalityType DEF Current
<1>2. CASE Cardinality(Current(rows)) = 1
    <2>1. PICK i : Current(rows) = {i}
        BY <1>1, <1>2, FS_Singleton
    <2>2. i \in DOMAIN rows
        BY <2>1 DEF Current
    <2>3. GetOrCreate(rows) = {[rows |-> rows, sub |-> j] : j \in Current(rows)}
        BY <1>2 DEF GetOrCreate
    <2> QED BY <2>1, <2>2, <2>3
<1>3. CASE Cardinality(Current(rows)) > 1
    <2>1. PICK i \in Current(rows) : TRUE
        BY <1>1, <1>3, FS_EmptySet
    <2>2. Current(rows) # {i}
        <3>1. Current(rows) = {i} => Cardinality(Current(rows)) = 1
            BY FS_Singleton, Zenon
        <3> QED BY <1>3, <3>1
    <2>3. GetOrCreate(rows) = {Failed(rows)}
        BY <1>1, <1>3 DEF GetOrCreate
    <2> QED BY <2>1, <2>2, <2>3
<1>4. CASE Cardinality(Current(rows)) = 0
    <2>1. Current(rows) = {}
        BY <1>1, <1>4, FS_EmptySet
    <2> QED BY <1>4, <2>1 DEF GetOrCreate
<1> QED BY <1>1, <1>2, <1>3, <1>4

\* get_or_create_current_subscription leaves stored rows, a current one among them
\* unless it raises.
LEMMA LookedUp ==
    ASSUME NEW rows \in Seq(SubRow), Storable(rows), now \in 0..Horizon,
           NEW found \in GetOrCreate(rows)
    PROVE  /\ Grows(rows, found.rows) /\ found.sub \in 0..Len(found.rows)
           /\ found.sub # 0 => Current(found.rows) # {}
           /\ found.sub # 0 /\ Current(rows) # {} =>
                 found.rows = rows /\ Current(rows) = {found.sub}
<1>1. ASSUME NEW i \in DOMAIN rows, Current(rows) = {i}, found = [rows |-> rows, sub |-> i]
      PROVE  /\ Grows(rows, found.rows) /\ found.sub \in 0..Len(found.rows)
             /\ found.sub # 0 => Current(found.rows) # {}
             /\ found.rows = rows /\ Current(rows) = {found.sub}
    <2>1. found.rows = rows /\ found.sub = i /\ i \in 1..Len(rows)
        BY <1>1
    <2>2. Grows(rows, found.rows)
        BY <2>1 DEF Grows
    <2>3. Current(found.rows) = {i}
        BY <1>1, <2>1
    <2> QED BY SMTT(60), <1>1, <2>1, <2>2, <2>3
<1>2. CASE found = Failed(rows)
    BY <1>2 DEF Failed, Grows
<1>3. ASSUME NEW plan \in NextPlan(rows), found = CreateSubscription(rows, plan, now)
      PROVE  /\ Grows(rows, found.rows) /\ found.sub \in 0..Len(found.rows)
             /\ found.sub # 0 => Current(found.rows) # {}
    <2>1. plan \in Plans
        <3>1. \A row \in SubRow : row.plan \in Plans
            BY DEF SubRow
        <3>2. \A i \in DOMAIN rows : rows[i] \in SubRow
            OBVIOUS
        <3> QED BY <1>3, <3>1, <3>2, SubscriptionsAssumption DEF NextPlan
    <2>2. now # Never
        BY Instants
    <2> QED BY <1>3, <2>1, <2>2, SubscriptionCreated
<1> QED BY <1>1, <1>2, <1>3, CurrentCounted

LEMMA RowsTyped ==
    ASSUME NEW rows \in Seq(SubRow)
    PROVE  /\ DOMAIN rows = 1..Len(rows) /\ Len(rows) \in Nat
           /\ \A i \in DOMAIN rows : /\ rows[i] \in SubRow /\ rows[i].plan \in Plans
                                     /\ rows[i].since \in Times /\ rows[i].until \in Times
<1>1. \A row \in SubRow : row.plan \in Plans /\ row.since \in Times /\ row.until \in Times
    BY DEF SubRow
<1>2. \A i \in DOMAIN rows : rows[i] \in SubRow
    OBVIOUS
<1> QED BY <1>1, <1>2

\* What keeps the invariant of the periods when the subscriptions change.
LEMMA SubsBecomeKeeps ==
    ASSUME SubscriptionsTypeOK, SubscriptionsInv, NEW rows \in Seq(SubRow), Storable(rows),
           Len(subs) <= Len(rows), SubsBecome(rows), requests' \in 0..MaxRequests
    PROVE  SubscriptionsTypeOK' /\ SubscriptionsInv'
<1>1. /\ subs' = rows /\ UNCHANGED <<now, packages>>
      /\ ordered' = [i \in DOMAIN rows |-> IF i \in DOMAIN ordered THEN ordered[i] ELSE 0]
    BY DEF SubsBecome
<1>2. /\ subs \in Seq(SubRow) /\ DOMAIN ordered = DOMAIN subs /\ DOMAIN subs \subseteq DOMAIN rows
      /\ DOMAIN subs' = DOMAIN rows
    BY <1>1, RowsTyped DEF SubscriptionsTypeOK, SubRow
<1>3. SubscriptionsTypeOK'
    <2>1. ordered' \in [DOMAIN subs' -> Quantities \cup {0}]
        BY <1>1, <1>2 DEF SubscriptionsTypeOK
    <2>2. packages' \subseteq [sub : DOMAIN subs', quantity : Quantities \ {0}, since : Times, until : Times]
        BY <1>1, <1>2 DEF SubscriptionsTypeOK
    <2>3. subs' \in Seq([plan : Plans, since : Times, until : Times]) /\ now' \in 0..Horizon
        BY <1>1 DEF SubRow, SubscriptionsTypeOK
    <2> QED BY <2>1, <2>2, <2>3 DEF SubscriptionsTypeOK
<1>4. StorablePackages(packages)' /\ \A i : Open(i)' = Open(i)
    BY <1>1 DEF SubscriptionsInv, PackagesInv, StorablePackages, ValidRange, Overlap, Open
<1>5. ASSUME NEW i \in DOMAIN subs'
      PROVE  (\A p \in Open(i)' : ordered'[i] = p.quantity) /\ (Open(i)' = {} => ordered'[i] = 0)
    <2>1. CASE i \in DOMAIN subs
        BY <1>1, <1>2, <1>4, <2>1 DEF SubscriptionsInv, PackagesInv
    <2>2. CASE i \notin DOMAIN subs
        <3>1. \A p \in packages : p.sub \in DOMAIN subs
            BY DEF SubscriptionsTypeOK
        <3> QED BY <1>1, <1>2, <1>4, <2>2, <3>1 DEF Open
    <2> QED BY <2>1, <2>2
<1>6. \A p \in packages' : p.since < Never /\ (p.until # Never => p.since < now')
    BY <1>1 DEF SubscriptionsInv, PackagesInv
<1>7. Storable(subs)'
    BY <1>1 DEF Storable, ValidRange, Overlap
<1> QED BY <1>3, <1>4, <1>5, <1>6, <1>7 DEF SubscriptionsInv, PackagesInv

\* What leaves the periods alone.
LEMMA PeriodsKept ==
    ASSUME SubscriptionsTypeOK, SubscriptionsInv, UNCHANGED <<now, subsVars>>,
           requests' \in 0..MaxRequests
    PROVE  SubscriptionsTypeOK' /\ SubscriptionsInv'
<1>1. SubscriptionsTypeOK'
    BY DEF SubscriptionsTypeOK, subsVars
<1> QED BY <1>1 DEF SubscriptionsInv, Storable, PackagesInv, StorablePackages, ValidRange, Overlap,
                    Open, subsVars

LEMMA TickKeeps ==
    ASSUME SubscriptionsTypeOK, SubscriptionsInv, Tick
    PROVE  SubscriptionsTypeOK' /\ SubscriptionsInv'
<1>1. now' = now + 1 /\ now' \in 0..Horizon /\ UNCHANGED <<subs, packages, requests, ordered>>
    BY Instants DEF Tick, SubscriptionsTypeOK
<1>2. SubscriptionsTypeOK'
    BY <1>1 DEF SubscriptionsTypeOK
<1>3. Storable(subs)' /\ StorablePackages(packages)' /\ \A i : Open(i)' = Open(i)
    BY <1>1 DEF SubscriptionsInv, PackagesInv, Storable, StorablePackages, ValidRange, Overlap, Open
<1>4. \A p \in packages' : p.since < Never /\ (p.until # Never => p.since < now')
    <2> SUFFICES ASSUME NEW p \in packages PROVE p.since < Never /\ (p.until # Never => p.since < now')
        BY <1>1
    <2>1. p.since \in Nat /\ now \in Nat
        BY Instants DEF SubscriptionsTypeOK
    <2> QED BY <1>1, <2>1 DEF SubscriptionsInv, PackagesInv
<1> QED BY <1>1, <1>2, <1>3, <1>4 DEF SubscriptionsInv, PackagesInv

LEMMA LookUpKeeps ==
    ASSUME SubscriptionsTypeOK, SubscriptionsInv, requests' \in 0..MaxRequests,
           NEW found \in GetOrCreate(subs), SubsBecome(found.rows)
    PROVE  SubscriptionsTypeOK' /\ SubscriptionsInv'
<1>1. subs \in Seq(SubRow) /\ Storable(subs) /\ now \in 0..Horizon
    BY DEF SubscriptionsTypeOK, SubscriptionsInv, SubRow
<1>2. Grows(subs, found.rows)
    BY <1>1, LookedUp
<1> QED BY <1>2, SubsBecomeKeeps DEF Grows

LEMMA SubscribeKeeps ==
    ASSUME SubscriptionsTypeOK, SubscriptionsInv, requests' \in 0..MaxRequests,
           NEW plan \in Plans, NEW at \in {now, Never}, Subscribe(plan, at)
    PROVE  SubscriptionsTypeOK' /\ SubscriptionsInv'
<1>1. subs \in Seq(SubRow) /\ Storable(subs) /\ now \in 0..Horizon
    BY DEF SubscriptionsTypeOK, SubscriptionsInv, SubRow
<1>2. PICK made : made = CreateSubscription(subs, plan, at)
    OBVIOUS
<1>3. Grows(subs, made.rows)
    BY <1>1, <1>2, SubscriptionCreated DEF Subscribe
<1>4. SubsBecome(made.rows)
    BY <1>2 DEF Subscribe
<1> QED BY <1>3, <1>4, SubsBecomeKeeps DEF Grows

LEMMA LaterTyped ==
    ASSUME SubscriptionsTypeOK
    PROVE  \A at \in Later : at \in Times /\ at \in 0..(Horizon + SecondTicks) /\ at < Never
    BY Instants DEF Later, SubscriptionsTypeOK

LEMMA ActivateKeeps ==
    ASSUME SubscriptionsTypeOK, SubscriptionsInv, requests' \in 0..MaxRequests,
           NEW i \in DOMAIN subs, NEW at \in Later, Activate(i, at)
    PROVE  SubscriptionsTypeOK' /\ SubscriptionsInv'
<1>1. subs \in Seq(SubRow) /\ at \in Times
    BY LaterTyped DEF SubscriptionsTypeOK, SubRow
<1> DEFINE ended == [j \in DOMAIN subs |->
                       IF j \in Current(subs) \ {i} THEN [subs[j] EXCEPT !.until = at] ELSE subs[j]]
<1>2. PICK rows : rows = [ended EXCEPT ![i].since = at]
    OBVIOUS
<1>3. Saves(rows, i) /\ SubsBecome(rows)
    BY <1>2 DEF Activate
<1>4. \A row \in SubRow : [row EXCEPT !.until = at] \in SubRow /\ [row EXCEPT !.since = at] \in SubRow
    BY <1>1 DEF SubRow
<1>5. ended \in [DOMAIN subs -> SubRow] /\ DOMAIN subs = 1..Len(subs) /\ Len(subs) \in Nat
    BY <1>1, <1>4, RowsTyped
<1>6. rows \in [1..Len(subs) -> SubRow]
    BY <1>2, <1>4, <1>5
<1>7. rows \in Seq(SubRow) /\ Len(rows) = Len(subs)
    BY <1>5, <1>6
<1> QED BY <1>3, <1>5, <1>7, SubsBecomeKeeps DEF Saves

LEMMA SetUntilKeeps ==
    ASSUME SubscriptionsTypeOK, SubscriptionsInv, requests' \in 0..MaxRequests,
           NEW i \in DOMAIN subs, NEW until \in Later \cup {Never}, SetUntil(i, until)
    PROVE  SubscriptionsTypeOK' /\ SubscriptionsInv'
<1>1. subs \in Seq(SubRow) /\ until \in Times
    BY LaterTyped, Instants DEF SubscriptionsTypeOK, SubRow
<1>2. PICK rows : rows = [subs EXCEPT ![i].until = until]
    OBVIOUS
<1>3. Saves(rows, i) /\ SubsBecome(rows)
    BY <1>2 DEF SetUntil
<1>4. \A row \in SubRow : [row EXCEPT !.until = until] \in SubRow
    BY <1>1 DEF SubRow
<1>5. rows \in [1..Len(subs) -> SubRow] /\ Len(subs) \in Nat
    BY <1>1, <1>2, <1>4, RowsTyped
<1>6. rows \in Seq(SubRow) /\ Len(rows) = Len(subs)
    BY <1>5
<1> QED BY <1>3, <1>5, <1>6, SubsBecomeKeeps DEF Saves

\* set_package_quantity: what was open is closed, and began before now; what has not
\* begun is gone.
LEMMA PackageQuantityKeeps ==
    ASSUME SubscriptionsTypeOK, SubscriptionsInv, requests' \in 0..MaxRequests,
           NEW i \in DOMAIN subs, NEW quantity \in Quantities, NEW since \in Later,
           SetPackageQuantity(i, quantity, since)
    PROVE  SubscriptionsTypeOK' /\ SubscriptionsInv'
<1> DEFINE PackageRow == [sub : DOMAIN subs, quantity : Quantities \ {0}, since : Times, until : Times]
<1>1. PICK at, kept, old, rest, new :
         /\ at = Floor(since) /\ at \in Times /\ at < Never /\ at # Never
         /\ kept = packages \ FuturePackages(i)
         /\ old = ActivePackages(kept, i)
         /\ rest = (kept \ old) \cup {[p EXCEPT !.until = at] : p \in old}
         /\ new = [sub |-> i, quantity |-> quantity, since |-> at, until |-> Never]
    <2>1. since \in Nat /\ since \in 0..(Horizon + SecondTicks) /\ Horizon + SecondTicks \in Nat
        BY LaterTyped, Instants
    <2>2. Floor(since) \in 0..since
        BY <2>1, FloorBelow
    <2>3. Floor(since) \in 0..(Horizon + SecondTicks)
        BY <2>1, <2>2
    <2>4. Floor(since) \in Times /\ Floor(since) < Never /\ Floor(since) # Never
        BY <2>3, Instants
    <2> QED BY <2>4
<1>2. /\ packages' = IF quantity > 0 THEN rest \cup {new} ELSE rest
      /\ StorablePackages(packages')
      /\ ordered' = [ordered EXCEPT ![i] = quantity] /\ UNCHANGED <<now, subs>>
    BY <1>1 DEF SetPackageQuantity
<1>3. packages \subseteq PackageRow /\ now \in Nat /\ quantity \in Nat /\ Times \subseteq Nat /\ Never \in Nat
    BY Instants, SubscriptionsAssumption DEF SubscriptionsTypeOK
<1>4. \A p \in kept : /\ p \in packages /\ (p.sub = i => p.since < now)
                      /\ p \in old <=> p.sub = i /\ now <= p.until
    <2>1. \A p \in packages : p.since \in Nat /\ p.until \in Nat
        BY <1>3
    <2> QED BY <1>1, <1>3, <2>1 DEF FuturePackages, ActivePackages, InPeriod
<1>5. \A p \in old : LET closed == [p EXCEPT !.until = at] IN
         /\ closed \in PackageRow /\ closed.sub = i /\ closed.until = at /\ closed.since = p.since
         /\ p.since < now
    <2> SUFFICES ASSUME NEW p \in old
                 PROVE  /\ [p EXCEPT !.until = at] \in PackageRow
                        /\ [p EXCEPT !.until = at].sub = i /\ [p EXCEPT !.until = at].until = at
                        /\ [p EXCEPT !.until = at].since = p.since /\ p.since < now
        OBVIOUS
    <2>1. p \in kept /\ p \in PackageRow /\ p.sub = i /\ p.since < now
        BY <1>1, <1>3, <1>4 DEF ActivePackages
    <2> QED BY <1>1, <2>1
<1>6. /\ rest \subseteq PackageRow
      /\ \A p \in rest : p.since < Never /\ (p.until # Never => p.since < now)
      /\ \A p \in rest : p.sub = i => p.until # Never
      /\ \A p : p.sub # i => (p \in rest <=> p \in packages)
    <2>1. ASSUME NEW p \in kept \ old
          PROVE  /\ p \in PackageRow /\ p.since < Never /\ (p.until # Never => p.since < now)
                 /\ p.sub = i => p.until # Never
        <3>1. p \in packages /\ p \in PackageRow
            BY <1>3, <1>4
        <3>2. now <= Never
            BY Instants DEF SubscriptionsTypeOK
        <3> QED BY <1>4, <3>1, <3>2 DEF SubscriptionsInv, PackagesInv
    <2>2. ASSUME NEW p \in old, NEW closed, closed = [p EXCEPT !.until = at]
          PROVE  /\ closed \in PackageRow /\ closed.since < Never /\ closed.since < now
                 /\ closed.sub = i /\ closed.until # Never
        <3>1. /\ closed \in PackageRow /\ closed.sub = i /\ closed.until = at
              /\ closed.since = p.since /\ p.since < now
            BY <1>5, <2>2
        <3>2. p \in packages
            BY <1>1, <1>4 DEF ActivePackages
        <3> QED BY <1>1, <3>1, <3>2 DEF SubscriptionsInv, PackagesInv
    <2>3. ASSUME NEW p, p.sub # i PROVE p \in rest <=> p \in packages
        BY <1>1, <1>4, <2>2, <2>3 DEF FuturePackages, ActivePackages
    <2> QED BY <1>1, <2>1, <2>2, <2>3
<1>7. new \in PackageRow \/ quantity = 0
    BY <1>1, <1>3, Instants
<1>8. new.sub = i /\ new.quantity = quantity /\ new.since = at /\ new.until = Never
    BY <1>1
<1>9. SubscriptionsTypeOK'
    <2>1. packages' \subseteq PackageRow
        BY <1>2, <1>6, <1>7
    <2>2. ordered' \in [DOMAIN subs -> Quantities \cup {0}]
        BY <1>2 DEF SubscriptionsTypeOK
    <2> QED BY <1>2, <2>1, <2>2 DEF SubscriptionsTypeOK
<1>10. \A p \in packages' : p.since < Never /\ (p.until # Never => p.since < now)
    BY <1>1, <1>2, <1>6, <1>8
<1>11. ASSUME NEW j \in DOMAIN subs
       PROVE  (\A p \in Open(j)' : ordered'[j] = p.quantity) /\ (Open(j)' = {} => ordered'[j] = 0)
    <2>1. CASE j = i
        <3>1. ordered'[i] = quantity
            BY <1>2 DEF SubscriptionsTypeOK
        <3>2. Open(i)' = IF quantity > 0 THEN {new} ELSE {}
            BY <1>2, <1>6, <1>8 DEF Open
        <3> QED BY <1>3, <1>8, <2>1, <3>1, <3>2
    <2>2. CASE j # i
        <3>1. ordered'[j] = ordered[j]
            BY <1>2, <2>2 DEF SubscriptionsTypeOK
        <3>2. Open(j)' = Open(j)
            BY <1>2, <1>6, <1>8, <2>2 DEF Open
        <3> QED BY <3>1, <3>2 DEF SubscriptionsInv, PackagesInv
    <2> QED BY <2>1, <2>2
<1>12. Storable(subs)' /\ StorablePackages(packages)'
    BY <1>2 DEF SubscriptionsInv, Storable, StorablePackages, ValidRange, Overlap
<1> QED BY <1>2, <1>9, <1>10, <1>11, <1>12 DEF SubscriptionsInv, PackagesInv

LEMMA CountedTyped ==
    ASSUME SubscriptionsTypeOK, Counted PROVE requests' \in 0..MaxRequests
    BY SubscriptionsAssumption DEF SubscriptionsTypeOK, Counted

LEMMA SubscriptionsNextKeeps ==
    ASSUME SubscriptionsTypeOK, SubscriptionsInv, SubscriptionsNext
    PROVE  SubscriptionsTypeOK' /\ SubscriptionsInv'
<1>1. Counted
    BY DEF SubscriptionsNext, LookUp, Subscribe, Activate, SetUntil, SetPackageQuantity
<1>2. requests' \in 0..MaxRequests
    BY <1>1, CountedTyped
<1>3. CASE LookUp
    BY <1>2, <1>3, LookUpKeeps DEF LookUp
<1> QED
    BY <1>2, <1>3, SubscribeKeeps, ActivateKeeps, SetUntilKeeps, PackageQuantityKeeps
       DEF SubscriptionsNext

-----------------------------------------------------------------------------
(* What the invariant of the periods says.                                 *)

\* Off the boundaries two current subscriptions would overlap, and a new one overlaps
\* none.
LEMMA FoundOffBoundaries ==
    ASSUME SubscriptionsTypeOK, SubscriptionsInv PROVE ServedOffBoundaries
<1> SUFFICES ASSUME \A i \in DOMAIN subs :
                        /\ subs[i].until \notin Floor(now)..now
                        /\ subs[i].since <= now \/ subs[i].since = Never,
                    NEW found \in GetOrCreate(subs)
             PROVE  found.sub # 0
    BY DEF ServedOffBoundaries
<1>1. /\ subs \in Seq(SubRow) /\ Storable(subs) /\ now \in 0..Horizon
      /\ now \in Nat /\ Floor(now) \in 0..now /\ now < Never /\ Times \subseteq Nat /\ Never \in Times
      /\ TrialTicks \in Nat /\ TrialTicks > 0
      /\ Floor(now) \in Times /\ Floor(now) + TrialTicks \in Times
      /\ Floor(now) < Never /\ Floor(now) + TrialTicks < Never
    <2>1. now \in 0..Horizon /\ now \in Nat
        BY Instants DEF SubscriptionsTypeOK
    <2>2. Floor(now) \in 0..now /\ Floor(now) \in 0..Horizon
        BY <2>1, FloorBelow, Instants
    <2> QED BY <2>1, <2>2, Instants DEF SubscriptionsTypeOK, SubscriptionsInv, SubRow
<1>2. \A i \in DOMAIN subs :
         /\ subs[i].since \in Nat /\ subs[i].until \in Nat /\ subs[i].until <= Never
         /\ subs[i].until < Floor(now) \/ now < subs[i].until
    <2> TAKE i \in DOMAIN subs
    <2>1. subs[i].since \in Times /\ subs[i].until \in Times
        BY <1>1, RowsTyped
    <2>2. subs[i].since \in Nat /\ subs[i].until \in Nat /\ subs[i].until <= Never
        BY <2>1, Instants
    <2>3. subs[i].until \notin Floor(now)..now
        OBVIOUS
    <2>4. Floor(now) \in Nat
        BY <1>1
    <2> QED BY <1>1, <2>2, <2>3, <2>4
<1>3. ASSUME NEW i \in Current(subs), NEW j \in Current(subs), i # j PROVE FALSE
    <2>1. /\ subs[i].since <= now /\ now < subs[i].until /\ subs[j].since <= now /\ now < subs[j].until
          /\ i \in DOMAIN subs /\ j \in DOMAIN subs
        BY <1>1, <1>2 DEF Current, InPeriod
    <2>2. Overlap(subs[i], subs[j])
        BY SMTT(60), <1>1, <1>2, <2>1 DEF Overlap
    <2> QED BY <1>1, <1>3, <2>1, <2>2 DEF Storable
<1>4. CASE \E i \in DOMAIN subs : Current(subs) = {i} /\ found = [rows |-> subs, sub |-> i]
    BY <1>1, <1>4, RowsTyped
<1>5. CASE Current(subs) = {} /\ \E plan \in NextPlan(subs) : found = CreateSubscription(subs, plan, now)
    <2>1. PICK plan \in NextPlan(subs) : found = CreateSubscription(subs, plan, now)
        BY <1>5
    <2>2. \A i \in DOMAIN subs : subs[i].until < Floor(now) \/ subs[i].since = Never
        <3> TAKE i \in DOMAIN subs
        <3>1. ~(subs[i].since <= now /\ now <= subs[i].until)
            BY <1>5 DEF Current, InPeriod
        <3> QED BY <1>1, <1>2, <3>1
    <2>3. plan \in Plans /\ DefaultPlan \in Plans
        BY <1>1, RowsTyped, SubscriptionsAssumption DEF NextPlan
    <2>4. ASSUME NEW p \in Plans, NEW since \in Times, NEW until \in Times, NEW rows \in Seq(SubRow),
                 since = Floor(now) \/ since = Floor(now) + TrialTicks, since < until, Storable(rows),
                 \A i \in DOMAIN rows : \/ rows[i].until < Floor(now) \/ rows[i].since = Never
                                        \/ rows[i].until = since
          PROVE  /\ CreateRow(rows, p, since, until).sub = Len(rows) + 1
                 /\ CreateRow(rows, p, since, until).rows =
                       Append(rows, [plan |-> p, since |-> since, until |-> until])
        <3>1. PICK row, more :
                 /\ row = [plan |-> p, since |-> since, until |-> until] /\ more = Append(rows, row)
            OBVIOUS
        <3>2. row \in SubRow /\ row.since = since /\ row.until = until
            BY <3>1 DEF SubRow
        <3>3. /\ more \in Seq(SubRow) /\ Len(more) = Len(rows) + 1 /\ more[Len(more)] = row
              /\ \A i \in DOMAIN rows : i \in DOMAIN more /\ more[i] = rows[i]
              /\ \A i \in DOMAIN more : i \in DOMAIN rows \/ i = Len(more)
            BY <3>1, <3>2
        <3>4. \A i \in DOMAIN rows :
                 /\ rows[i].since \in Nat /\ rows[i].until \in Nat /\ rows[i].until <= Never
                 /\ ~(rows[i].since < since /\ since < rows[i].until)
                 /\ ~Overlap(rows[i], row) /\ ~Overlap(row, rows[i])
            <4> TAKE i \in DOMAIN rows
            <4>1. rows[i].since \in Times /\ rows[i].until \in Times
                BY RowsTyped
            <4>2. rows[i].since \in Nat /\ rows[i].until \in Nat /\ rows[i].until <= Never
                BY <4>1, Instants
            <4>3. \/ rows[i].until < Floor(now) \/ rows[i].since = Never \/ rows[i].until = since
                BY <2>4
            <4>4. since \in Nat /\ until \in Nat /\ until <= Never /\ Floor(now) <= since
                BY SMTT(60), <1>1, <2>4, Instants
            <4>5. since < Never
                BY <1>1, <2>4
            <4>6. ~(rows[i].since < since /\ since < rows[i].until)
                BY <1>1, <4>2, <4>3, <4>4, <4>5
            <4>7. ~Overlap(rows[i], row) /\ ~Overlap(row, rows[i])
                BY <1>1, <3>2, <4>2, <4>3, <4>4, <4>5 DEF Overlap
            <4> QED BY <4>2, <4>6, <4>7
        <3>5. Clean(more, Len(more))
            BY <3>2, <3>3, <3>4 DEF Clean
        <3>6. ValidRange(row)
            BY <1>1, <2>4, <3>2, Instants DEF ValidRange
        <3>7. Storable(more)
            <4>1. \A i \in DOMAIN more : ValidRange(more[i])
                BY <2>4, <3>3, <3>6 DEF Storable
            <4>2. \A i, j \in DOMAIN more : i # j => ~Overlap(more[i], more[j])
                BY <2>4, <3>3, <3>4 DEF Storable
            <4> QED BY <4>1, <4>2 DEF Storable
        <3> QED BY <3>1, <3>3, <3>5, <3>7 DEF CreateRow, Saves
    <2>5. now # Never
        BY <1>1
    <2>6. CASE plan \notin Trial
        <3>1. found = CreateRow(subs, plan, Floor(now), Never)
            BY <2>1, <2>5, <2>6 DEF CreateSubscription
        <3>2. CreateRow(subs, plan, Floor(now), Never).sub = Len(subs) + 1
            <4>1. /\ subs \in Seq(SubRow) /\ Storable(subs) /\ Floor(now) < Never
                  /\ Floor(now) \in Times /\ Never \in Times
                BY <1>1
            <4> QED BY ZenonT(60), <2>2, <2>3, <2>4, <4>1
        <3> QED BY <1>1, <3>1, <3>2, RowsTyped
    <2>7. CASE plan \in Trial
        <3>1. PICK row, trial :
                 /\ row = [plan |-> plan, since |-> Floor(now), until |-> Floor(now) + TrialTicks]
                 /\ trial = CreateRow(subs, plan, Floor(now), Floor(now) + TrialTicks)
            OBVIOUS
        <3>2. row \in SubRow /\ row.until = Floor(now) + TrialTicks
            BY <1>1, <2>3, <3>1 DEF SubRow
        <3>3. trial.sub = Len(subs) + 1 /\ trial.rows = Append(subs, row)
            <4>1. Floor(now) < Floor(now) + TrialTicks
                BY <1>1
            <4> QED BY <1>1, <2>2, <2>3, <2>4, <3>1, <4>1
        <3>4. Grows(subs, trial.rows)
            BY <1>1, <2>3, <3>1, RowCreated
        <3>5. /\ trial.rows \in Seq(SubRow) /\ Storable(trial.rows) /\ trial.sub # 0
              /\ \A i \in DOMAIN trial.rows : trial.rows[i] = row \/ (i \in DOMAIN subs /\ trial.rows[i] = subs[i])
            BY <1>1, <3>2, <3>3, <3>4, RowsTyped DEF Grows
        <3>6. found = CreateRow(trial.rows, DefaultPlan, Floor(now) + TrialTicks, Never)
            BY <2>1, <2>5, <2>7, <3>1, <3>5 DEF CreateSubscription
        <3>7. CreateRow(trial.rows, DefaultPlan, Floor(now) + TrialTicks, Never).sub = Len(trial.rows) + 1
            <4>1. \A i \in DOMAIN trial.rows :
                     \/ trial.rows[i].until < Floor(now) \/ trial.rows[i].since = Never
                     \/ trial.rows[i].until = Floor(now) + TrialTicks
                BY <2>2, <3>2, <3>5
            <4>2. /\ Floor(now) + TrialTicks < Never
                  /\ Floor(now) + TrialTicks \in Times /\ Never \in Times
                BY <1>1
            <4> QED BY ZenonT(60), <2>3, <2>4, <3>5, <4>1, <4>2
        <3> QED BY <3>5, <3>6, <3>7, RowsTyped
    <2> QED BY <2>6, <2>7
<1> QED BY <1>1, <1>3, <1>4, <1>5, CurrentCounted

\* The first of packages is one of them: their times are natural numbers.
LEMMA FirstIsThere ==
    ASSUME NEW P, P # {}, \A p \in P : p.since \in Nat
    PROVE  \E p \in P : \A q \in P : p.since <= q.since
<1> DEFINE R == {z \in Nat \X Nat : z[1] < z[2]}
           T == {p.since : p \in P}
<1>1. IsWellFoundedOn(R, Nat)
    BY NatLessThanWellFounded DEF OpToRel
<1>2. T \subseteq Nat /\ T # {}
    OBVIOUS
<1> HIDE DEF R
<1>3. PICK t \in T : \A s \in T : ~ (<<s, t>> \in R)
    BY <1>1, <1>2, WFMin
<1>4. ASSUME NEW s \in T PROVE t <= s
    <2>1. ~ (<<s, t>>[1] < <<s, t>>[2])
        BY <1>2, <1>3 DEF R
    <2> QED BY <1>2, <2>1
<1> QED BY <1>4

\* The quantity that is open is what is ordered, whatever is future, active or past.
LEMMA QuantityIsOrdered ==
    ASSUME SubscriptionsTypeOK, SubscriptionsInv PROVE OrderedQuantity
<1> SUFFICES ASSUME NEW i \in DOMAIN subs PROVE FutureQuantity(i) = ordered[i]
    BY DEF OrderedQuantity
<1> DEFINE first(P) == CHOOSE p \in P : \A q \in P : p.since <= q.since
<1>1. /\ now \in Nat /\ now < Never /\ Never \in Nat
      /\ \A p \in packages : /\ p.since \in Nat /\ p.until \in Nat /\ p.until <= Never
                             /\ p.since < Never /\ (p.until # Never => p.since < now)
    <2>1. \A p \in packages : p.since \in Times /\ p.until \in Times
        BY DEF SubscriptionsTypeOK
    <2> QED BY <2>1, Instants DEF SubscriptionsTypeOK, SubscriptionsInv, PackagesInv
<1>2. \A p, q \in packages : p.sub = i /\ q.sub = i /\ p # q => ~Overlap(p, q)
    BY DEF SubscriptionsInv, PackagesInv, StorablePackages
<1>3. CASE FuturePackages(i) # {}
    <2>1. PICK q : q \in FuturePackages(i)
        BY <1>3
    <2>2. \A p \in FuturePackages(i) : p \in Open(i)
        BY <1>1 DEF FuturePackages, Open
    <2>3. \A p \in Open(i) : p = q
        BY <1>1, <1>2, <2>1, <2>2 DEF Open, Overlap
    <2>4. FuturePackages(i) = {q}
        BY <2>1, <2>2, <2>3
    <2>5. q.since <= q.since
        BY <1>1, <2>1 DEF FuturePackages
    <2>6. first(FuturePackages(i)) = q
        BY <2>4, <2>5
    <2>7. FutureQuantity(i) = q.quantity
        BY <1>3, <2>6 DEF FutureQuantity
    <2> QED BY <2>1, <2>2, <2>7 DEF SubscriptionsInv, PackagesInv
<1>4. CASE FuturePackages(i) = {} /\ Open(i) # {}
    <2>1. PICK q : q \in Open(i)
        BY <1>4
    <2>2. /\ q \in packages /\ q.sub = i /\ q.until = Never /\ q.since < now
          /\ q \in ActivePackages(packages, i)
        BY <1>1, <1>4, <2>1 DEF Open, FuturePackages, ActivePackages, InPeriod
    <2>3. ASSUME NEW p \in ActivePackages(packages, i), p # q PROVE FALSE
        <3>1. /\ p \in packages /\ p.sub = i /\ now <= p.until /\ p.since < now
            BY <1>1, <1>4 DEF ActivePackages, InPeriod, FuturePackages
        <3>2. Overlap(p, q)
            BY <1>1, <2>2, <3>1 DEF Overlap
        <3> QED BY <1>2, <2>2, <2>3, <3>1, <3>2
    <2>4. ActivePackages(packages, i) = {q}
        BY <2>2, <2>3
    <2>5. q.since <= q.since
        BY <1>1, <2>2
    <2>6. first(ActivePackages(packages, i)) = q
        BY <2>4, <2>5
    <2>7. FutureQuantity(i) = q.quantity
        BY <1>4, <2>2, <2>6 DEF FutureQuantity
    <2> QED BY <2>1, <2>7 DEF SubscriptionsInv, PackagesInv
<1>5. CASE FuturePackages(i) = {} /\ Open(i) = {}
    <2>1. \A p \in ActivePackages(packages, i) : p.until # Never /\ p.since \in Nat
        BY <1>1, <1>5 DEF ActivePackages, Open
    <2>2. ActivePackages(packages, i) # {} =>
             first(ActivePackages(packages, i)) \in ActivePackages(packages, i)
        BY <2>1, FirstIsThere
    <2>3. FutureQuantity(i) = 0
        BY <1>5, <2>1, <2>2 DEF FutureQuantity
    <2> QED BY <1>5, <2>3 DEF SubscriptionsInv, PackagesInv
<1> QED BY <1>3, <1>4, <1>5

-----------------------------------------------------------------------------
(* Members, team members and collaborators.                                *)

PeopleTypes ==
    /\ orgOwner \in People
    /\ members \in [People -> {"admin", "member", None}] /\ members[orgOwner] = None
    /\ teamMembers \subseteq People
    /\ collabs \in [Principals -> Roles \cup {None}]
    /\ incognito \subseteq {p \in People : collabs[p] # None}
    /\ projOwner \in Owners /\ isPublic \in BOOLEAN /\ moved \in BOOLEAN

\* The team and the project that never had another owner have nobody from outside.
PlacesInv ==
    /\ teamMembers \subseteq OfUser
    /\ projOwner = Organization /\ ~moved => \A p \in People : collabs[p] # None => p \in OfUser

LEMMA Names ==
    /\ IsFiniteSet(People) /\ Founder \in People /\ PersonPlan \in Plans
    /\ Organization \notin People /\ Organization # Team /\ Team \notin People
    /\ None \notin {"admin", "member", "manager", "editor", "reporter", "reader"}
    /\ Roles \subseteq {"admin", "manager", "editor", "reporter", "reader"}
    /\ None \notin Roles /\ "reader" \in Roles
    /\ Principals = People \cup {Team} /\ Owners = People \cup {Organization}
    BY AccessAssumption DEF Principals, Owners, ALL_ROLES

LEMMA OrganizationRoleIs ==
    ASSUME NEW u
    PROVE  /\ u = orgOwner => OrganizationRole(u) = {[rank |-> 1, name |-> "admin"]}
           /\ u # orgOwner /\ members[u] # None =>
                 OrganizationRole(u) = {[rank |-> 2, name |-> members[u]]}
           /\ u # orgOwner /\ members[u] = None => OrganizationRole(u) = {}
<1> DEFINE first == [rank |-> 1, name |-> "admin"]
           second == [rank |-> 2, name |-> members[u]]
<1>1. first.rank = 1 /\ second.rank = 2
    OBVIOUS
<1>2. OrganizationRows(u) = (IF u = orgOwner THEN {first} ELSE {})
                            \cup (IF members[u] # None THEN {second} ELSE {})
    BY DEF OrganizationRows
<1> HIDE DEF first, second
<1>3. /\ u = orgOwner => OrganizationRole(u) = {first}
      /\ u # orgOwner /\ members[u] # None => OrganizationRole(u) = {second}
      /\ u # orgOwner /\ members[u] = None => OrganizationRole(u) = {}
    BY <1>1, <1>2 DEF OrganizationRole
<1> QED BY <1>3 DEF first, second

LEMMA OfUserIs == OfUser = {u \in People : u = orgOwner \/ members[u] # None}
    BY OrganizationRoleIs DEF OfUser

LEMMA OfUserIsNext == OfUser' = {u \in People : u = orgOwner' \/ members'[u] # None}
<1>1. \A u \in People : (OrganizationRole(u) # {} <=> u = orgOwner \/ members[u] # None)'
    <2> TAKE u \in People
    <2> DEFINE first == [rank |-> 1, name |-> "admin"]
               second == [rank |-> 2, name |-> members'[u]]
    <2>1. first.rank = 1 /\ second.rank = 2
        OBVIOUS
    <2>2. OrganizationRows(u)' = (IF u = orgOwner' THEN {first} ELSE {})
                                 \cup (IF members'[u] # None THEN {second} ELSE {})
        BY DEF OrganizationRows
    <2> HIDE DEF first, second
    <2> QED BY <2>1, <2>2 DEF OrganizationRole
<1> QED BY <1>1 DEF OfUser

LEMMA PeopleKept ==
    ASSUME PeopleTypes, PlacesInv, UNCHANGED <<orgVars, collabVars, projectVars>>
    PROVE  PeopleTypes' /\ PlacesInv'
<1>1. OfUser' = OfUser
    BY OfUserIs, OfUserIsNext DEF orgVars
<1> QED BY <1>1 DEF PeopleTypes, PlacesInv, orgVars, collabVars, projectVars

LEMMA MembersKeep ==
    ASSUME PeopleTypes, PlacesInv, NEW p \in People, NEW role \in {"admin", "member"},
           AddMember(p, role) \/ ChangeMember(p, role)
    PROVE  PeopleTypes' /\ PlacesInv'
<1>1. /\ p # orgOwner /\ members' = [members EXCEPT ![p] = role]
      /\ UNCHANGED <<orgOwner, teamMembers, collabVars, projectVars>>
    BY DEF AddMember, ChangeMember, PeopleTypes
<1>2. role # None
    BY Names DEF AddMember, ChangeMember
<1>3. OfUser \subseteq OfUser'
    BY <1>1, <1>2, OfUserIs, OfUserIsNext DEF PeopleTypes
<1>4. PeopleTypes'
    BY <1>1 DEF PeopleTypes, collabVars, projectVars
<1> QED BY <1>1, <1>3, <1>4 DEF PlacesInv, collabVars, projectVars

\* Who leaves the organization leaves its team and its projects.
LEMMA LeavesTyped ==
    ASSUME PeopleTypes, NEW p \in People, LeavesTeams(p), LeavesProjects(p)
    PROVE  /\ collabs' \in [Principals -> Roles \cup {None}]
           /\ incognito' \subseteq {q \in People : collabs'[q] # None}
           /\ teamMembers' = teamMembers \ {p}
           /\ \A q \in People : collabs'[q] # None => collabs[q] # None
           /\ projOwner = Organization => collabs'[p] = None
<1>1. p \in Principals
    BY DEF Principals
<1>2. collabs' = IF projOwner = Organization THEN [collabs EXCEPT ![p] = None] ELSE collabs
    BY DEF LeavesProjects
<1>3. /\ collabs' \in [Principals -> Roles \cup {None}]
      /\ \A q \in People : collabs'[q] # None => collabs[q] # None
      /\ projOwner = Organization => collabs'[p] = None
    BY <1>1, <1>2, Names DEF PeopleTypes
<1> QED BY <1>3 DEF LeavesTeams, LeavesProjects, MembersOf, PeopleTypes

LEMMA RemoveMemberKeeps ==
    ASSUME PeopleTypes, PlacesInv, NEW p \in People, RemoveMember(p)
    PROVE  PeopleTypes' /\ PlacesInv'
<1>1. /\ members' = [members EXCEPT ![p] = None] /\ members[p] # None
      /\ LeavesTeams(p) /\ LeavesProjects(p) /\ UNCHANGED <<orgOwner, projectVars>>
    BY DEF RemoveMember, WithoutMember
<1>2. OfUser \ {p} \subseteq OfUser'
    BY <1>1, OfUserIs, OfUserIsNext DEF PeopleTypes
<1>3. PeopleTypes'
    BY <1>1, LeavesTyped DEF PeopleTypes, projectVars
<1> QED BY <1>1, <1>2, <1>3, LeavesTyped DEF PlacesInv, PeopleTypes, projectVars

LEMMA TransferOrganizationKeeps ==
    ASSUME PeopleTypes, PlacesInv, NEW p \in People, TransferOrganization(p)
    PROVE  PeopleTypes' /\ PlacesInv'
<1>1. /\ p # orgOwner /\ orgOwner' = p
      /\ members' = [[members EXCEPT ![p] = None] EXCEPT ![orgOwner] = "admin"]
      /\ \/ LeavesTeams(p) /\ LeavesProjects(p)
         \/ UNCHANGED <<teamMembers, collabVars>>
      /\ UNCHANGED projectVars
    BY DEF TransferOrganization, WithoutMember
<1>2. /\ members' \in [People -> {"admin", "member", None}] /\ members'[p] = None
      /\ members'[orgOwner] = "admin"
      /\ \A q \in People \ {p, orgOwner} : members'[q] = members[q]
    BY <1>1 DEF PeopleTypes
<1>3. OfUser \subseteq OfUser'
    BY <1>1, <1>2, Names, OfUserIs, OfUserIsNext DEF PeopleTypes
<1>4. /\ collabs' \in [Principals -> Roles \cup {None}]
      /\ incognito' \subseteq {q \in People : collabs'[q] # None}
      /\ teamMembers' \subseteq teamMembers
      /\ \A q \in People : collabs'[q] # None => collabs[q] # None
    <2>1. CASE LeavesTeams(p) /\ LeavesProjects(p)
        BY <2>1, LeavesTyped
    <2>2. CASE UNCHANGED <<teamMembers, collabVars>>
        BY <2>2 DEF collabVars, PeopleTypes
    <2> QED BY <1>1, <2>1, <2>2
<1>5. PeopleTypes'
    BY <1>1, <1>2, <1>4 DEF PeopleTypes, projectVars
<1> QED BY <1>1, <1>3, <1>4, <1>5 DEF PlacesInv, PeopleTypes, projectVars

LEMMA TeamKeeps ==
    ASSUME PeopleTypes, PlacesInv,
           DeleteTeam \/ \E p \in People : AddTeamMember(p) \/ RemoveTeamMember(p)
    PROVE  PeopleTypes' /\ PlacesInv'
<1>1. UNCHANGED <<orgOwner, members, incognito, projectVars>>
    BY DEF DeleteTeam, AddTeamMember, RemoveTeamMember, collabVars
<1>2. OfUser' = OfUser /\ OfUser \subseteq People
    BY <1>1, OfUserIs, OfUserIsNext
<1>3. teamMembers' \subseteq OfUser
    BY DEF DeleteTeam, AddTeamMember, RemoveTeamMember, PlacesInv
<1>4. /\ collabs' \in [Principals -> Roles \cup {None}]
      /\ \A q \in People : collabs'[q] = collabs[q]
    <2>1. CASE DeleteTeam
        BY <2>1, Names DEF DeleteTeam, PeopleTypes
    <2>2. CASE \E p \in People : AddTeamMember(p) \/ RemoveTeamMember(p)
        BY <2>2 DEF AddTeamMember, RemoveTeamMember, collabVars, PeopleTypes
    <2> QED BY <2>1, <2>2
<1>5. PeopleTypes'
    BY <1>1, <1>2, <1>3, <1>4 DEF PeopleTypes, projectVars
<1> QED BY <1>1, <1>2, <1>3, <1>4, <1>5 DEF PlacesInv, projectVars

\* A collaborator is given a role.
LEMMA SaveCollaboratorKeeps ==
    ASSUME PeopleTypes, PlacesInv, NEW c \in Principals, NEW role \in Roles, SaveCollaborator(c, role),
           incognito' = incognito \/ (c # Team /\ incognito' = incognito \cup {c})
    PROVE  PeopleTypes' /\ PlacesInv'
<1>1. /\ collabs' = [collabs EXCEPT ![c] = role] /\ UNCHANGED <<orgVars, projectVars>>
      /\ projOwner = Organization /\ c \in People => c \in OfUser
    BY DEF SaveCollaborator, CleanCollaborator
<1>2. OfUser' = OfUser
    BY <1>1, OfUserIs, OfUserIsNext DEF orgVars
<1>3. /\ collabs' \in [Principals -> Roles \cup {None}] /\ role # None /\ collabs'[c] = role
      /\ \A q \in Principals \ {c} : collabs'[q] = collabs[q]
    BY <1>1, Names DEF PeopleTypes
<1>4. incognito' \subseteq {p \in People : collabs'[p] # None}
    BY <1>3, Names DEF PeopleTypes
<1>5. PeopleTypes'
    BY <1>1, <1>3, <1>4 DEF PeopleTypes, orgVars, projectVars
<1> QED BY <1>1, <1>2, <1>3, <1>5, Names DEF PlacesInv, orgVars, projectVars

LEMMA CollaboratorsKeep ==
    ASSUME PeopleTypes, PlacesInv, NEW c \in Principals,
           \/ \E role \in Roles :
                 \/ \E hidden \in {FALSE, c # Team} : AddCollaborator(c, role, hidden)
                 \/ ChangeCollaborator(c, role)
           \/ RemoveCollaborator(c) \/ CreateCollaborator(c)
    PROVE  PeopleTypes' /\ PlacesInv'
<1>1. ASSUME NEW role \in Roles, NEW hidden \in {FALSE, c # Team}, AddCollaborator(c, role, hidden)
      PROVE  PeopleTypes' /\ PlacesInv'
    BY <1>1, SaveCollaboratorKeeps DEF AddCollaborator
<1>2. ASSUME NEW role \in Roles, ChangeCollaborator(c, role)
      PROVE  PeopleTypes' /\ PlacesInv'
    BY <1>2, SaveCollaboratorKeeps DEF ChangeCollaborator
<1>3. CASE CreateCollaborator(c)
    BY <1>3, SaveCollaboratorKeeps, Names DEF CreateCollaborator
<1>4. CASE RemoveCollaborator(c)
    <2>1. /\ collabs' = [collabs EXCEPT ![c] = None] /\ incognito' = incognito \ {c}
          /\ UNCHANGED <<orgVars, projectVars>>
        BY <1>4 DEF RemoveCollaborator
    <2>2. OfUser' = OfUser
        BY <2>1, OfUserIs, OfUserIsNext DEF orgVars
    <2>3. /\ collabs' \in [Principals -> Roles \cup {None}] /\ collabs'[c] = None
          /\ \A q \in Principals \ {c} : collabs'[q] = collabs[q]
        BY <2>1 DEF PeopleTypes
    <2>4. incognito' \subseteq {p \in People : collabs'[p] # None}
        BY <2>1, <2>3, Names DEF PeopleTypes
    <2>5. PeopleTypes'
        BY <2>1, <2>3, <2>4 DEF PeopleTypes, orgVars, projectVars
    <2> QED BY <2>1, <2>2, <2>3, <2>5, Names DEF PlacesInv, orgVars, projectVars
<1> QED BY <1>1, <1>2, <1>3, <1>4

LEMMA ProjectKeeps ==
    ASSUME PeopleTypes, PlacesInv,
           (\E owner \in Owners : TransferProject(owner)) \/ (\E public \in BOOLEAN : SetPublic(public))
    PROVE  PeopleTypes' /\ PlacesInv'
<1>1. /\ UNCHANGED <<orgVars, collabVars>> /\ projOwner' \in Owners /\ isPublic' \in BOOLEAN
      /\ moved' = TRUE \/ UNCHANGED <<projOwner, moved>>
    BY DEF TransferProject, SetPublic, PeopleTypes, orgVars, collabVars
<1>2. OfUser' = OfUser
    BY <1>1, OfUserIs, OfUserIsNext DEF orgVars
<1>3. PeopleTypes'
    BY <1>1 DEF PeopleTypes, orgVars, collabVars
<1> QED BY <1>1, <1>2, <1>3 DEF PlacesInv, orgVars, collabVars

-----------------------------------------------------------------------------
(* The invariant.                                                          *)

\* Whoever cleans a member has found a current subscription twice: the second time the
\* first one's.
LEMMA CapFound ==
    ASSUME SubscriptionsTypeOK, SubscriptionsInv, NEW m, CleanMember(m)
    PROVE  \E rows : /\ Grows(subs, rows) /\ SubsBecome(rows)
                     /\ \E i \in Current(rows) : HasRoom(rows[i].plan, m)
<1>1. subs \in Seq(SubRow) /\ Storable(subs) /\ now \in 0..Horizon
    BY DEF SubscriptionsTypeOK, SubscriptionsInv, SubRow
<1>2. PICK found \in CapPlans : HasRoom(found.plan, m) /\ SubsBecome(found.rows)
    BY DEF CleanMember
<1>3. PICK f \in GetOrCreate(subs) : /\ f.sub # 0
                                     /\ \E g \in GetOrCreate(f.rows) :
                                           /\ g.sub # 0
                                           /\ found = [rows |-> g.rows, plan |-> g.rows[g.sub].plan]
    BY <1>2 DEF CapPlans
<1>4. PICK g \in GetOrCreate(f.rows) :
         g.sub # 0 /\ found = [rows |-> g.rows, plan |-> g.rows[g.sub].plan]
    BY <1>3
<1>5. Grows(subs, f.rows) /\ Current(f.rows) # {}
    BY <1>1, <1>3, LookedUp
<1>6. f.rows \in Seq(SubRow) /\ Storable(f.rows)
    BY <1>5 DEF Grows
<1>7. g.rows = f.rows /\ g.sub \in Current(f.rows)
    BY <1>1, <1>4, <1>5, <1>6, LookedUp
<1>8. found.rows = f.rows /\ found.plan = f.rows[g.sub].plan
    BY <1>4, <1>7
<1> QED BY <1>2, <1>5, <1>7, <1>8

LEMMA RowsBecome ==
    ASSUME SubscriptionsTypeOK, SubscriptionsInv, Counted, NEW rows, Grows(subs, rows), SubsBecome(rows)
    PROVE  SubscriptionsTypeOK' /\ SubscriptionsInv'
    BY SubsBecomeKeeps, CountedTyped DEF Grows

LEMMA SubscriptionsKept ==
    ASSUME SubscriptionsTypeOK, SubscriptionsInv, [Next]_vars
    PROVE  SubscriptionsTypeOK' /\ SubscriptionsInv'
<1>1. CASE UNCHANGED vars
    BY <1>1, PeriodsKept DEF vars, SubscriptionsTypeOK
<1>2. CASE Tick
    BY <1>2, TickKeeps
<1>3. CASE SubscriptionsNext
    BY <1>3, SubscriptionsNextKeeps
<1>4. ASSUME Counted, UNCHANGED <<now, subsVars>> PROVE SubscriptionsTypeOK' /\ SubscriptionsInv'
    BY <1>4, PeriodsKept, CountedTyped
<1>5. ASSUME Counted, NEW found \in GetOrCreate(subs), SubsBecome(found.rows)
      PROVE  SubscriptionsTypeOK' /\ SubscriptionsInv'
    BY <1>5, LookUpKeeps, CountedTyped
<1>6. ASSUME Counted, NEW m, CleanMember(m)
      PROVE  SubscriptionsTypeOK' /\ SubscriptionsInv'
    BY <1>6, CapFound, RowsBecome
<1>7. ASSUME NEW p \in People, NEW role, AddMember(p, role) \/ ChangeMember(p, role)
      PROVE  SubscriptionsTypeOK' /\ SubscriptionsInv'
    BY <1>6, <1>7 DEF AddMember, ChangeMember
<1>8. ASSUME NEW p \in People, TransferOrganization(p)
      PROVE  SubscriptionsTypeOK' /\ SubscriptionsInv'
    BY <1>6, <1>8 DEF TransferOrganization
<1>9. ASSUME NEW p \in People, RemoveMember(p) \/ AddTeamMember(p) \/ RemoveTeamMember(p)
      PROVE  SubscriptionsTypeOK' /\ SubscriptionsInv'
    BY <1>4, <1>9 DEF RemoveMember, AddTeamMember, RemoveTeamMember
<1>10. CASE DeleteTeam
    BY <1>4, <1>10 DEF DeleteTeam
<1>11. ASSUME NEW c \in Principals, NEW role, NEW hidden,
              AddCollaborator(c, role, hidden) \/ ChangeCollaborator(c, role) \/ RemoveCollaborator(c)
       PROVE  SubscriptionsTypeOK' /\ SubscriptionsInv'
    BY <1>4, <1>11 DEF AddCollaborator, ChangeCollaborator, RemoveCollaborator
<1>12. ASSUME NEW c \in Principals, CreateCollaborator(c)
       PROVE  SubscriptionsTypeOK' /\ SubscriptionsInv'
    <2>1. PICK found \in OwnersPlan : SubsBecome(found.rows)
        BY <1>12 DEF CreateCollaborator
    <2>2. CASE projOwner # Organization
        <3>1. found.rows = subs
            BY <2>1, <2>2 DEF OwnersPlan
        <3>2. Grows(subs, found.rows)
            BY <3>1 DEF Grows, SubscriptionsTypeOK, SubscriptionsInv, SubRow
        <3> QED BY <1>12, <2>1, <3>2, RowsBecome DEF CreateCollaborator
    <2>3. CASE projOwner = Organization
        <3>1. PICK f \in GetOrCreate(subs) : found.rows = f.rows
            BY <2>1, <2>3 DEF OwnersPlan
        <3> QED BY <1>5, <1>12, <2>1, <3>1 DEF CreateCollaborator
    <2> QED BY <2>2, <2>3
<1>13. ASSUME NEW owner \in Owners, TransferProject(owner)
       PROVE  SubscriptionsTypeOK' /\ SubscriptionsInv'
    BY <1>4, <1>5, <1>13 DEF TransferProject
<1>14. ASSUME NEW public, SetPublic(public)
       PROVE  SubscriptionsTypeOK' /\ SubscriptionsInv'
    BY <1>4, <1>14 DEF SetPublic
<1> QED
    BY <1>1, <1>2, <1>3, <1>7, <1>8, <1>9, <1>10, <1>11, <1>12, <1>13, <1>14 DEF Next

AccessInv == SubscriptionsInv /\ PlacesInv

LEMMA TypesOfBoth == TypeOK <=> SubscriptionsTypeOK /\ PeopleTypes
    BY DEF TypeOK, PeopleTypes

\* Rows keep their types and the invariant holds.
LEMMA AccessKept == Spec => [](SubscriptionsTypeOK /\ PeopleTypes /\ AccessInv)
<1>1. Init => SubscriptionsTypeOK /\ PeopleTypes /\ AccessInv
    <2> SUFFICES ASSUME Init PROVE SubscriptionsTypeOK /\ PeopleTypes /\ AccessInv
        OBVIOUS
    <2>1. PICK plan \in Plans : subs = <<[plan |-> plan, since |-> 0, until |-> Never]>>
        BY DEF Init, SubscriptionsInit
    <2> DEFINE row == [plan |-> plan, since |-> 0, until |-> Never]
    <2>2. row \in SubRow /\ row.since = 0 /\ row.until = Never
        <3>1. 0 \in Times /\ Never \in Times
            BY Instants
        <3> QED BY <3>1 DEF SubRow
    <2>3. subs = <<row>> /\ subs \in Seq(SubRow) /\ DOMAIN subs = {1} /\ subs[1] = row
        BY <2>1, <2>2
    <2>4. SubscriptionsTypeOK
        <3>1. now \in 0..Horizon /\ requests \in 0..MaxRequests /\ packages = {}
            BY SubscriptionsAssumption DEF Init, SubscriptionsInit
        <3>2. ordered \in [DOMAIN subs -> Quantities \cup {0}]
            BY <2>3 DEF Init, SubscriptionsInit
        <3> QED BY <2>3, <3>1, <3>2 DEF SubscriptionsTypeOK, SubRow
    <2>5. Storable(subs)
        BY <2>2, <2>3, Instants DEF Storable, ValidRange
    <2>6. PackagesInv
        BY <2>3 DEF Init, SubscriptionsInit, PackagesInv, StorablePackages, Open
    <2>7. PeopleTypes
        BY Names DEF Init, PeopleTypes
    <2>8. PlacesInv
        BY Names DEF Init, PlacesInv
    <2> QED BY <2>4, <2>5, <2>6, <2>7, <2>8 DEF AccessInv, SubscriptionsInv
<1>2. SubscriptionsTypeOK /\ PeopleTypes /\ AccessInv /\ [Next]_vars =>
          SubscriptionsTypeOK' /\ PeopleTypes' /\ AccessInv'
    <2> SUFFICES ASSUME SubscriptionsTypeOK, PeopleTypes, SubscriptionsInv, PlacesInv, [Next]_vars
                 PROVE  SubscriptionsTypeOK' /\ PeopleTypes' /\ AccessInv'
        BY DEF AccessInv
    <2>1. SubscriptionsTypeOK' /\ SubscriptionsInv'
        BY SubscriptionsKept
    <2>2. PeopleTypes' /\ PlacesInv'
        <3>1. CASE UNCHANGED <<orgVars, collabVars, projectVars>>
            BY <3>1, PeopleKept
        <3>2. CASE UNCHANGED vars
            BY <3>1, <3>2 DEF vars
        <3>3. CASE Next
            BY <3>1, <3>3, MembersKeep, RemoveMemberKeeps, TransferOrganizationKeeps, TeamKeeps,
               CollaboratorsKeep, ProjectKeeps DEF Next
        <3> QED BY <3>2, <3>3
    <2> QED BY <2>1, <2>2 DEF AccessInv
<1> QED BY <1>1, <1>2, PTL DEF Spec

-----------------------------------------------------------------------------
(* The tables of permissions and requests.                                 *)

LEMMA JoinedTables ==
    ASSUME NEW tables
    PROVE  /\ \A table \in tables : DOMAIN table \subseteq DOMAIN Joined(tables)
           /\ \A key \in DOMAIN Joined(tables) :
                 \E table \in tables : key \in DOMAIN table /\ Joined(tables)[key] = table[key]
<1>1. DOMAIN Joined(tables) = UNION {DOMAIN table : table \in tables}
    BY DEF Joined
<1>2. ASSUME NEW table \in tables PROVE DOMAIN table \subseteq DOMAIN Joined(tables)
    BY <1>1
<1>3. ASSUME NEW key \in DOMAIN Joined(tables)
      PROVE  \E table \in tables : key \in DOMAIN table /\ Joined(tables)[key] = table[key]
    <2>1. \E table \in tables : key \in DOMAIN table
        BY <1>1
    <2>2. Joined(tables)[key] = (CHOOSE table \in tables : key \in DOMAIN table)[key]
        BY DEF Joined
    <2> QED BY <2>1, <2>2
<1> QED BY <1>2, <1>3

\* An admin has every permission in a project.
LEMMA AdminsMay ==
    /\ \A what \in DOMAIN Permissions : "admin" \in Permissions[what]
    /\ \A table \in {ProjectPermissions, FilePermissions, DeltaPermissions, JobPermissions,
                     CollaboratorPermissions} : DOMAIN table \subseteq DOMAIN Permissions
<1> DEFINE tables == {ProjectPermissions, FilePermissions, DeltaPermissions, JobPermissions,
                      CollaboratorPermissions}
<1>1. "admin" \in Anyone /\ "admin" \in Reporters /\ "admin" \in Editors /\ "admin" \in Managers
    BY DEF Anyone, Reporters, Editors, Managers, ALL_ROLES
<1>2. \A what \in DOMAIN ProjectPermissions : "admin" \in ProjectPermissions[what]
    BY <1>1 DEF ProjectPermissions
<1>3. \A what \in DOMAIN FilePermissions : "admin" \in FilePermissions[what]
    BY <1>1 DEF FilePermissions
<1>4. \A what \in DOMAIN DeltaPermissions : "admin" \in DeltaPermissions[what]
    BY <1>1 DEF DeltaPermissions
<1>5. \A what \in DOMAIN JobPermissions : "admin" \in JobPermissions[what]
    BY <1>1 DEF JobPermissions
<1>6. \A what \in DOMAIN CollaboratorPermissions : "admin" \in CollaboratorPermissions[what]
    BY <1>1 DEF CollaboratorPermissions
<1>7. \A table \in tables : \A what \in DOMAIN table : "admin" \in table[what]
    BY <1>2, <1>3, <1>4, <1>5, <1>6
<1>8. Permissions = Joined(tables)
    BY DEF Permissions
<1> HIDE DEF tables
<1>9. \A table \in tables : DOMAIN table \subseteq DOMAIN Permissions
    BY <1>8, JoinedTables
<1>10. \A what \in DOMAIN Permissions : "admin" \in Permissions[what]
    BY <1>7, <1>8, JoinedTables
<1> QED BY <1>9, <1>10 DEF tables

\* Every request asks for a permission there is.
LEMMA RequestsKnown ==
    /\ \A r \in DOMAIN RoleRequests : RoleRequests[r] \in DOMAIN Permissions
    /\ "delete_project_secrets" \in DOMAIN Permissions
<1> DEFINE tables == {ProjectRequests, CloneRequests, FileLists, FileRequests, ThumbnailRequests,
                      PackageLists, PackageFileRequests, JobRequests, DeltaLists, DeltaRequests,
                      CollaboratorRequests}
           known == DOMAIN Permissions
<1>1. /\ DOMAIN ProjectPermissions \subseteq known /\ DOMAIN FilePermissions \subseteq known
      /\ DOMAIN DeltaPermissions \subseteq known /\ DOMAIN JobPermissions \subseteq known
      /\ DOMAIN CollaboratorPermissions \subseteq known
    BY AdminsMay
<1> HIDE DEF known
<1>2. {"access_project", "update_project", "delete_project"} \subseteq known
    BY <1>1 DEF ProjectPermissions
<1>3. {"create_files", "read_files", "delete_files"} \subseteq known
    BY <1>1 DEF FilePermissions
<1>4. {"create_deltas", "read_deltas"} \subseteq known
    BY <1>1 DEF DeltaPermissions
<1>5. {"list_jobs", "create_package_job", "create_process_job", "delete_project_secrets"} \subseteq known
    BY <1>1 DEF JobPermissions
<1>6. {"create_collaborators", "read_collaborators", "update_collaborators", "delete_collaborators"}
          \subseteq known
    BY <1>1 DEF CollaboratorPermissions
<1>7. \A table \in {ProjectRequests, CloneRequests, FileLists, FileRequests, ThumbnailRequests} :
         \A r \in DOMAIN table : table[r] \in known
    BY <1>2, <1>3 DEF ProjectRequests, CloneRequests, FileLists, FileRequests, ThumbnailRequests
<1>8. \A table \in {PackageLists, PackageFileRequests, JobRequests, DeltaLists, DeltaRequests} :
         \A r \in DOMAIN table : table[r] \in known
    BY <1>2, <1>4, <1>5 DEF PackageLists, PackageFileRequests, JobRequests, DeltaLists, DeltaRequests
<1>9. \A r \in DOMAIN CollaboratorRequests : CollaboratorRequests[r] \in known
    BY <1>6 DEF CollaboratorRequests
<1>10. \A table \in tables : \A r \in DOMAIN table : table[r] \in known
    BY <1>7, <1>8, <1>9
<1>11. RoleRequests = Joined(tables)
    BY DEF RoleRequests
<1> HIDE DEF tables
<1>12. \A r \in DOMAIN RoleRequests : RoleRequests[r] \in known
    BY <1>10, <1>11, JoinedTables
<1> QED BY <1>5, <1>12 DEF known

\* An admin of the organization has every permission in it, and is all that requests ask for.
LEMMA AdminsMayInOrganization ==
    /\ \A what \in DOMAIN OrganizationPermissions : OrganizationPermissions[what] = {"admin"}
    /\ \A r \in DOMAIN AdminRequests : AdminRequests[r] \in DOMAIN OrganizationPermissions
    /\ "delete_organization_secrets" \in DOMAIN OrganizationPermissions
<1> DEFINE own == [create_project |-> {"admin"}, update_user |-> {"admin"}]
           tables == {own, SecretPermissions, MemberPermissions}
           requestTables == {MemberRequests, TeamRequests, TeamMemberRequests, AccountRequests}
           known == DOMAIN OrganizationPermissions
<1>1. OrganizationPermissions = Joined(tables) /\ AdminRequests = Joined(requestTables)
    BY DEF OrganizationPermissions, AdminRequests
<1>2. \A table \in tables : \A what \in DOMAIN table : table[what] = {"admin"}
    <2>1. \A what \in DOMAIN own : own[what] = {"admin"}
        OBVIOUS
    <2>2. \A what \in DOMAIN SecretPermissions : SecretPermissions[what] = {"admin"}
        BY DEF SecretPermissions
    <2>3. \A what \in DOMAIN MemberPermissions : MemberPermissions[what] = {"admin"}
        BY DEF MemberPermissions
    <2> HIDE DEF own
    <2> QED BY <2>1, <2>2, <2>3
<1>3. DOMAIN own \subseteq known /\ DOMAIN SecretPermissions \subseteq known
      /\ DOMAIN MemberPermissions \subseteq known
    <2> HIDE DEF own
    <2> QED BY <1>1, JoinedTables
<1> HIDE DEF known
<1>4. /\ {"create_project", "update_user"} \subseteq known
      /\ {"create_members", "update_members", "delete_members"} \subseteq known
      /\ "delete_organization_secrets" \in known
    BY <1>3 DEF SecretPermissions, MemberPermissions
<1>5. \A table \in requestTables : \A r \in DOMAIN table : table[r] \in known
    BY <1>4 DEF MemberRequests, TeamRequests, TeamMemberRequests, AccountRequests
<1> HIDE DEF tables, requestTables
<1>6. \A what \in DOMAIN OrganizationPermissions : OrganizationPermissions[what] = {"admin"}
    BY <1>1, <1>2, JoinedTables
<1>7. \A r \in DOMAIN AdminRequests : AdminRequests[r] \in known
    BY <1>1, <1>5, JoinedTables
<1> QED BY <1>4, <1>6, <1>7 DEF known

-----------------------------------------------------------------------------
(* The roles.                                                              *)

\* Whoever is in charge of the project is so before any other reason.
InCharge(u) ==
    \/ projOwner = u
    \/ projOwner = Organization /\ (orgOwner = u \/ members[u] = "admin")

LEMMA InChargeFirst ==
    ASSUME NEW u, InCharge(u)
    PROVE  \E r : FirstRow(u) = {r} /\ r.name = "admin" /\ r.rank \in {1, 2, 3}
<1>1. PICK one : one = [rank |-> 1, name |-> "admin"]
    OBVIOUS
<1>2. PICK two : two = [rank |-> 2, name |-> "admin"]
    OBVIOUS
<1>3. PICK three : three = [rank |-> 3, name |-> "admin"]
    OBVIOUS
<1>4. PICK four : four = [rank |-> 4, name |-> collabs[u]]
    OBVIOUS
<1>5. PICK five : five = [rank |-> 5, name |-> collabs[Team]]
    OBVIOUS
<1>6. PICK six : six = [rank |-> 6, name |-> "reader"]
    OBVIOUS
<1>7. /\ one.rank = 1 /\ one.name = "admin" /\ two.rank = 2 /\ two.name = "admin"
      /\ three.rank = 3 /\ three.name = "admin" /\ four.rank = 4 /\ five.rank = 5 /\ six.rank = 6
    BY <1>1, <1>2, <1>3, <1>4, <1>5, <1>6
<1>8. RoleRows(u) =
         (IF projOwner = u THEN {one} ELSE {})
         \cup (IF projOwner = Organization /\ orgOwner = u THEN {two} ELSE {})
         \cup (IF projOwner = Organization /\ members[u] = "admin" THEN {three} ELSE {})
         \cup (IF collabs[u] # None THEN {four} ELSE {})
         \cup (IF collabs[Team] # None /\ u \in teamMembers THEN {five} ELSE {})
         \cup (IF isPublic THEN {six} ELSE {})
    BY <1>1, <1>2, <1>3, <1>4, <1>5, <1>6 DEF RoleRows
<1>9. \A r \in RoleRows(u) : r \in {one, two, three, four, five, six}
    BY <1>7, <1>8
<1>10. CASE projOwner = u
    <2>1. one \in RoleRows(u)
        BY <1>7, <1>8, <1>10
    <2>2. FirstRow(u) = {one}
        BY <1>7, <1>8, <1>9, <2>1 DEF FirstRow
    <2> QED BY <1>7, <1>8, <2>2
<1>11. CASE projOwner # u /\ projOwner = Organization /\ orgOwner = u
    <2>1. two \in RoleRows(u) /\ \A r \in RoleRows(u) : r \in {two, three, four, five, six}
        BY <1>7, <1>8, <1>11
    <2>2. FirstRow(u) = {two}
        BY <1>7, <1>8, <2>1 DEF FirstRow
    <2> QED BY <1>7, <1>8, <2>2
<1>12. CASE projOwner # u /\ projOwner = Organization /\ orgOwner # u /\ members[u] = "admin"
    <2>1. three \in RoleRows(u) /\ \A r \in RoleRows(u) : r \in {three, four, five, six}
        BY <1>7, <1>8, <1>12
    <2>2. FirstRow(u) = {three}
        BY <1>7, <1>8, <2>1 DEF FirstRow
    <2> QED BY <1>7, <1>8, <2>2
<1> QED BY <1>10, <1>11, <1>12 DEF InCharge

\* Nobody from outside has a role in a private project that stayed the organization's.
LEMMA OutsidersHaveNone ==
    ASSUME PeopleTypes, PlacesInv, NEW u \in People \ OfUser,
           projOwner = Organization, ~moved, ~isPublic
    PROVE  FirstRow(u) = {} /\ RolesOf(u) = {}
<1>1. /\ u # orgOwner /\ members[u] = None /\ members[u] # "admin" /\ projOwner # u
      /\ collabs[u] = None /\ u \notin teamMembers
    BY OfUserIs, Names DEF PlacesInv
<1>2. RoleRows(u) = {}
    BY <1>1 DEF RoleRows
<1> QED BY <1>2 DEF FirstRow, RolesOf

LEMMA OwnerAlone == ASSUME NEW u PROVE IsOwner(u) <=> u = orgOwner
<1>1. CASE u = orgOwner
    <2>1. PICK r : r = [rank |-> 1, name |-> "admin"]
        OBVIOUS
    <2>2. OrganizationRole(u) = {r} /\ r.rank = 1
        BY <1>1, <2>1, OrganizationRoleIs
    <2> QED BY <1>1, <2>2 DEF IsOwner
<1>2. CASE u # orgOwner /\ members[u] # None
    <2>1. PICK r : r = [rank |-> 2, name |-> members[u]]
        OBVIOUS
    <2>2. OrganizationRole(u) = {r} /\ r.rank = 2
        BY <1>2, <2>1, OrganizationRoleIs
    <2> QED BY <1>2, <2>2 DEF IsOwner
<1>3. CASE u # orgOwner /\ members[u] = None
    BY <1>3, OrganizationRoleIs DEF IsOwner
<1> QED BY <1>1, <1>2, <1>3

LEMMA OutsidersAreRefused ==
    ASSUME TypeOK, PeopleTypes, PlacesInv PROVE OutsidersRefused
<1>1. ASSUME NEW u \in People \ OfUser PROVE ServedInOrganization(u) = OpenRequests
    <2>1. OrganizationRole(u) = {}
        BY OrganizationRoleIs, OfUserIs
    <2> QED BY <2>1 DEF ServedInOrganization, ReadsCurrentSubscription
<1>2. ASSUME NEW u \in People \ OfUser, projOwner = Organization, ~moved, ~isPublic
      PROVE  /\ ServedInProject(u) = {} /\ ~CanDeleteSecret(u, FALSE)
             /\ ~Listed(u, TRUE) /\ ~PublicListed(u)
    <2>1. FirstRow(u) = {} /\ RolesOf(u) = {}
        BY <1>2, OutsidersHaveNone
    <2>2. Granted(u) = {} /\ ~CanRetrieve(u)
        BY <2>1 DEF Granted, CanRetrieve
    <2>3. ServedInProject(u) = {}
        BY <2>2 DEF ServedInProject
    <2>4. ~CanDeleteSecret(u, FALSE)
        BY <2>1 DEF CanDeleteSecret, Can
    <2> QED BY <1>2, <2>1, <2>3, <2>4 DEF Listed, PublicListed
<1>3. ASSUME NEW u \in People PROVE CanReadBilling(u) <=> u = orgOwner
    BY OwnerAlone DEF CanReadBilling
<1>4. ASSUME NEW u \in People, NEW i \in DOMAIN subs
      PROVE  /\ Cancels(u, i) \/ CanChangeAdditionalStorage(u, i) => u = orgOwner
             /\ subs[i].plan \in Cancellable /\ u = orgOwner =>
                   (CanCancelAtPeriodEnd(u, i) <=> ~CanAbortCancellation(u, i))
    BY OwnerAlone DEF Cancels, CanChangeAdditionalStorage, CanCancelAtPeriodEnd,
       CanCancelImmediately, CanAbortCancellation
<1> QED BY <1>1, <1>2, <1>3, <1>4 DEF OutsidersRefused, PlacesInv

LEMMA OwnersAreServed == ASSUME PeopleTypes PROVE OwnersServed
<1>1. ASSUME NEW u \in IF projOwner = Organization THEN OrganizationAdmins ELSE {projOwner}
      PROVE  /\ Granted(u) = DOMAIN Permissions /\ CanDeleteSecret(u, FALSE)
             /\ ServedInProject(u) =
                   DOMAIN RoleRequests \cup (IF IsValid(u) THEN ValidRoleRequests ELSE {})
             /\ Listed(u, FALSE)
    <2>1. InCharge(u)
        BY DEF InCharge, OrganizationAdmins
    <2>2. PICK r : FirstRow(u) = {r} /\ r.name = "admin" /\ r.rank \in {1, 2, 3}
        BY <2>1, InChargeFirst
    <2>3. RolesOf(u) = {"admin"}
        BY <2>2 DEF RolesOf
    <2>4. Granted(u) = DOMAIN Permissions
        BY <2>3, AdminsMay DEF Granted
    <2>5. CanDeleteSecret(u, FALSE)
        BY <2>3, AdminsMay, RequestsKnown DEF CanDeleteSecret, Can
    <2>6. CanRetrieve(u) <=> IsValid(u)
        BY <2>3 DEF CanRetrieve
    <2>7. {q \in DOMAIN RoleRequests : RoleRequests[q] \in Granted(u)} = DOMAIN RoleRequests
        BY <2>4, RequestsKnown
    <2>8. ServedInProject(u) =
             DOMAIN RoleRequests \cup (IF IsValid(u) THEN ValidRoleRequests ELSE {})
        BY <2>6, <2>7 DEF ServedInProject
    <2>9. Listed(u, FALSE)
        BY <2>2 DEF Listed
    <2> QED BY <2>4, <2>5, <2>8, <2>9
<1>2. ASSUME NEW u \in OrganizationAdmins
      PROVE  /\ ServedInOrganization(u) = DOMAIN AdminRequests \cup OpenRequests \cup MembersRequests
             /\ CanDeleteSecret(u, TRUE)
    <2>1. PICK r : OrganizationRole(u) = {r} /\ r.name = "admin" /\ r.rank \in {1, 2}
        <3>1. /\ [rank |-> 1, name |-> "admin"].rank = 1 /\ [rank |-> 1, name |-> "admin"].name = "admin"
              /\ [rank |-> 2, name |-> "admin"].rank = 2 /\ [rank |-> 2, name |-> "admin"].name = "admin"
            OBVIOUS
        <3>2. CASE u = orgOwner
            BY <3>1, <3>2, OrganizationRoleIs
        <3>3. CASE u # orgOwner /\ members[u] = "admin"
            BY <3>1, <3>3, OrganizationRoleIs, Names
        <3> QED BY <3>2, <3>3 DEF OrganizationAdmins
    <2>2. u \in OfUser /\ ReadsCurrentSubscription(u)
        BY <2>1 DEF OfUser, OrganizationAdmins, ReadsCurrentSubscription
    <2>3. {q \in DOMAIN AdminRequests :
              \E role \in OrganizationRole(u) : role.name \in OrganizationPermissions[AdminRequests[q]]}
          = DOMAIN AdminRequests
        BY <2>1, AdminsMayInOrganization
    <2>4. ServedInOrganization(u) = DOMAIN AdminRequests \cup OpenRequests \cup MembersRequests
        BY <2>2, <2>3 DEF ServedInOrganization, MembersRequests
    <2>5. CanDeleteSecret(u, TRUE)
        BY <2>1, AdminsMayInOrganization DEF CanDeleteSecret, CanInOrganization
    <2> QED BY <2>4, <2>5
<1>3. ASSUME NEW c \in Principals, NEW plan, CanBecomeCollaborator(c, plan)
      PROVE  c \in OfferedForProject(c # Team, FALSE)
    <2>1. c # projOwner /\ collabs[c] = None /\ (projOwner # Organization => c # Team)
        BY <1>3 DEF CanBecomeCollaborator
    <2>2. c \in Users(~(c # Team) /\ projOwner = Organization)
        BY <2>1, Names DEF Users
    <2>3. c \notin MembersOf(collabs) \cup {projOwner}
        BY <2>1 DEF MembersOf
    <2> QED BY <2>2, <2>3 DEF OfferedForProject
<1>4. ASSUME NEW c \in Principals
      PROVE  CanBecomeMember(c) <=> c \in OfferedForOrganization(FALSE, FALSE)
    <2>1. MembersOf(members) = {p \in People : members[p] # None}
        BY DEF MembersOf, PeopleTypes
    <2>2. OfferedForOrganization(FALSE, FALSE) =
             (People \cup {Organization, Team}) \ (MembersOf(members) \cup {orgOwner, Organization})
        BY DEF OfferedForOrganization, Users
    <2> QED BY <2>1, <2>2, OfUserIs, Names DEF CanBecomeMember, PeopleTypes
<1>5. LET plans == {found.plan : found \in OwnersPlan} IN
      \A c \in Principals :
         (\E plan \in plans : CanBecomeCollaborator(c, plan)) => c \in OfferedForProject(c # Team, FALSE)
    BY <1>3
<1> QED BY <1>1, <1>2, <1>4, <1>5 DEF OwnersServed

-----------------------------------------------------------------------------
(* The caps of the plans.                                                  *)

LEMMA TooManyAreHidden ==
    ASSUME SubscriptionsTypeOK, SubscriptionsInv, PeopleTypes PROVE TooManyHides
<1> SUFFICES ASSUME NEW found \in OwnersPlan, TooManyCollaborators(found.plan),
                    NEW u \in People, CanRetrieve(u)
             PROVE  FALSE
    BY DEF TooManyHides
<1>1. ~isPublic /\ ~Covers(found.plan, Cardinality(DirectCollaborators))
    BY DEF TooManyCollaborators
<1>2. PICK plan \in ViewPlans : Covers(plan, Cardinality(PersonCollaborators))
    BY <1>1 DEF CanRetrieve, IsValid
<1>3. plan = found.plan /\ plan \in Plans
    <2>1. CASE projOwner # Organization
        BY <1>2, <2>1, Names DEF ViewPlans, OwnersPlan
    <2>2. CASE projOwner = Organization
        <3>1. PICK f \in GetOrCreate(subs) :
                 f.sub # 0 /\ found = [rows |-> f.rows, plan |-> f.rows[f.sub].plan]
            BY <2>2 DEF OwnersPlan
        <3>2. PICK i \in DOMAIN subs :
                 subs[i].since < now /\ now < subs[i].until /\ plan = subs[i].plan
            BY <1>2, <2>2 DEF ViewPlans
        <3>3. subs \in Seq(SubRow) /\ Storable(subs) /\ now \in 0..Horizon /\ now \in Nat
            BY Instants DEF SubscriptionsTypeOK, SubscriptionsInv, SubRow
        <3>4. subs[i].since \in Nat /\ subs[i].until \in Nat /\ plan \in Plans
            BY <3>2, <3>3, RowsTyped, Instants
        <3>5. i \in Current(subs)
            BY <3>2, <3>3, <3>4 DEF Current, InPeriod
        <3>6. f.rows = subs /\ Current(subs) = {f.sub}
            BY <3>1, <3>3, <3>5, LookedUp
        <3> QED BY <3>1, <3>2, <3>4, <3>5, <3>6
    <2> QED BY <2>1, <2>2
<1>4. /\ Cardinality(DirectCollaborators) \in Nat /\ Cardinality(PersonCollaborators) \in Nat
      /\ Cardinality(DirectCollaborators) <= Cardinality(PersonCollaborators)
    <2>1. PersonCollaborators \subseteq People /\ DirectCollaborators \subseteq PersonCollaborators
        BY DEF PersonCollaborators, DirectCollaborators, MembersOf, PeopleTypes, Principals
    <2>2. IsFiniteSet(PersonCollaborators) /\ IsFiniteSet(DirectCollaborators)
        BY <2>1, Names, FS_Subset
    <2> QED BY <2>1, <2>2, FS_Subset, FS_CardinalityType
<1>5. MaxCollaborators[plan] \in Nat \cup {-1}
    BY <1>3, SubscriptionsAssumption
<1> QED BY <1>1, <1>2, <1>3, <1>4, <1>5 DEF Covers

\* One more is one more at most.
LEMMA OneMore ==
    ASSUME NEW S, IsFiniteSet(S), NEW T, NEW p, T \subseteq S \cup {p}
    PROVE  /\ Cardinality(S) \in Nat /\ Cardinality(T) \in Nat
           /\ Cardinality(T) <= Cardinality(S) + 1
<1>1. IsFiniteSet(S \cup {p}) /\ Cardinality(S \cup {p}) \in Nat
      /\ Cardinality(S \cup {p}) <= Cardinality(S) + 1 /\ Cardinality(S) \in Nat
    <2>1. /\ IsFiniteSet(S \cup {p})
          /\ Cardinality(S \cup {p}) = IF p \in S THEN Cardinality(S) ELSE Cardinality(S) + 1
        BY FS_AddElement
    <2>2. Cardinality(S) \in Nat
        BY FS_CardinalityType
    <2> QED BY <2>1, <2>2
<1>2. IsFiniteSet(T) /\ Cardinality(T) <= Cardinality(S \cup {p})
    BY <1>1, FS_Subset
<1> QED BY <1>1, <1>2, FS_CardinalityType

LEMMA CapHolds ==
    ASSUME SubscriptionsTypeOK, SubscriptionsInv, NEW m, CleanMember(m), IsFiniteSet(MembersOf(m)),
           NEW p, MembersOf(members') \subseteq MembersOf(m) \cup {p}
    PROVE  \E i \in Current(subs') :
              \/ MaxMembers[subs'[i].plan] = -1
              \/ Cardinality(MembersOf(members')) + 1 <= MaxMembers[subs'[i].plan]
<1>1. PICK rows : /\ Grows(subs, rows) /\ SubsBecome(rows)
                  /\ \E i \in Current(rows) : HasRoom(rows[i].plan, m)
    BY CapFound
<1>2. PICK i \in Current(rows) : HasRoom(rows[i].plan, m)
    BY <1>1
<1>3. subs' = rows
    BY <1>1 DEF SubsBecome
<1>4. rows[i].plan \in Plans
    BY <1>1, <1>2, RowsTyped DEF Grows, Current
<1>5. MaxMembers[rows[i].plan] \in Nat \cup {-1}
    BY <1>4, SubscriptionsAssumption
<1>6. /\ Cardinality(MembersOf(m)) \in Nat /\ Cardinality(MembersOf(members')) \in Nat
      /\ Cardinality(MembersOf(members')) <= Cardinality(MembersOf(m)) + 1
    BY OneMore
<1>7. \/ MaxMembers[rows[i].plan] = -1
      \/ Cardinality(MembersOf(members')) + 1 <= MaxMembers[rows[i].plan]
    BY <1>2, <1>5, <1>6 DEF HasRoom
<1> QED BY <1>2, <1>3, <1>7

LEMMA StepWithinPlan ==
    ASSUME SubscriptionsTypeOK, SubscriptionsInv, PeopleTypes, [Next]_vars,
           Cardinality(MembersOf(members')) > Cardinality(MembersOf(members))
    PROVE  \E i \in Current(subs') :
              \/ MaxMembers[subs'[i].plan] = -1
              \/ Cardinality(MembersOf(members')) + 1 <= MaxMembers[subs'[i].plan]
<1>1. /\ MembersOf(members) = {p \in People : members[p] # None} /\ IsFiniteSet(MembersOf(members))
      /\ Cardinality(MembersOf(members)) \in Nat
    <2>1. MembersOf(members) = {p \in People : members[p] # None}
        BY DEF MembersOf, PeopleTypes
    <2>2. IsFiniteSet(MembersOf(members))
        BY <2>1, Names, FS_Subset
    <2> QED BY <2>1, <2>2, FS_CardinalityType
<1>2. ~(MembersOf(members') \subseteq MembersOf(members))
    <2>1. SUFFICES ASSUME MembersOf(members') \subseteq MembersOf(members) PROVE FALSE
        OBVIOUS
    <2>2. /\ Cardinality(MembersOf(members')) \in Nat
          /\ Cardinality(MembersOf(members')) <= Cardinality(MembersOf(members))
        BY <1>1, <2>1, FS_Subset, FS_CardinalityType
    <2> QED BY <1>1, <2>2
<1>3. members' # members
    BY <1>2
<1>4. ASSUME NEW p \in People, NEW role, AddMember(p, role) \/ ChangeMember(p, role)
      PROVE  CleanMember(members) /\ MembersOf(members') \subseteq MembersOf(members) \cup {p}
    <2>1. CleanMember(members) /\ members' = [members EXCEPT ![p] = role]
        BY <1>4 DEF AddMember, ChangeMember
    <2> QED BY <1>1, <2>1 DEF MembersOf, PeopleTypes
<1>5. ASSUME NEW p \in People, RemoveMember(p) PROVE FALSE
    <2>1. members' = [members EXCEPT ![p] = None]
        BY <1>5 DEF RemoveMember, WithoutMember
    <2> QED BY <1>1, <1>2, <2>1 DEF MembersOf, PeopleTypes
<1>6. ASSUME NEW p \in People, TransferOrganization(p)
      PROVE  \E m : /\ CleanMember(m) /\ IsFiniteSet(MembersOf(m))
                    /\ MembersOf(members') \subseteq MembersOf(m) \cup {orgOwner}
    <2>1. PICK m : m = [members EXCEPT ![p] = None]
        OBVIOUS
    <2>2. CleanMember(m) /\ members' = [m EXCEPT ![orgOwner] = "admin"]
        BY <1>6, <2>1 DEF TransferOrganization, WithoutMember
    <2>3. MembersOf(m) \subseteq MembersOf(members)
        BY <1>1, <2>1 DEF MembersOf, PeopleTypes
    <2>4. MembersOf(members') \subseteq MembersOf(m) \cup {orgOwner}
        BY <2>1, <2>2 DEF MembersOf, PeopleTypes
    <2> QED BY <1>1, <2>2, <2>3, <2>4, FS_Subset
<1>7. \/ \E p \in People, role \in {"admin", "member"} : AddMember(p, role) \/ ChangeMember(p, role)
      \/ \E p \in People : TransferOrganization(p)
    <2>1. CASE UNCHANGED vars
        BY <1>3, <2>1 DEF vars, orgVars
    <2>2. CASE Next
        BY <1>3, <1>5, <2>2
           DEF Next, orgVars, collabVars, projectVars, AddTeamMember, RemoveTeamMember, DeleteTeam,
               AddCollaborator, ChangeCollaborator, RemoveCollaborator, CreateCollaborator,
               SaveCollaborator, TransferProject, SetPublic
    <2> QED BY <2>1, <2>2
<1>8. \A p \in People : \A role :
         AddMember(p, role) \/ ChangeMember(p, role) =>
            \E i \in Current(subs') :
               \/ MaxMembers[subs'[i].plan] = -1
               \/ Cardinality(MembersOf(members')) + 1 <= MaxMembers[subs'[i].plan]
    BY <1>1, <1>4, CapHolds
<1>9. \A p \in People :
         TransferOrganization(p) =>
            \E i \in Current(subs') :
               \/ MaxMembers[subs'[i].plan] = -1
               \/ Cardinality(MembersOf(members')) + 1 <= MaxMembers[subs'[i].plan]
    BY <1>6, CapHolds
<1> QED BY <1>7, <1>8, <1>9

-----------------------------------------------------------------------------
(* The theorems.                                                           *)

\* Rows keep their types: subscriptions, packages, members, team members and
\* collaborators, whatever requests change, transfer and delete.
THEOREM TypeCorrect == Spec => []TypeOK
    BY AccessKept, TypesOfBoth, PTL

\* Every request finds the current subscription or can create it, off the boundaries
\* of periods: clean(), the exclusion constraint and the cut of active_since.
THEOREM ServedOffBoundariesAlways == Spec => []ServedOffBoundaries
<1>1. SubscriptionsTypeOK /\ PeopleTypes /\ AccessInv => ServedOffBoundaries
    BY FoundOffBoundaries DEF AccessInv
<1> QED BY <1>1, AccessKept, PTL

\* The quantity of packages an account is told it will have is the last one ordered:
\* set_package_quantity and get_future_package_quantity.
THEOREM OrderedQuantityAlways == Spec => []OrderedQuantity
<1>1. SubscriptionsTypeOK /\ PeopleTypes /\ AccessInv => OrderedQuantity
    BY QuantityIsOrdered DEF AccessInv
<1> QED BY <1>1, AccessKept, PTL

\* Nothing is left to who left the organization, and nothing withheld from who is in
\* charge: the views of roles, the tables of permissions and the requests of the API.
THEOREM RolesHoldAlways == Spec => []RolesHold
<1>1. SubscriptionsTypeOK /\ PeopleTypes /\ AccessInv => RolesHold
    BY OutsidersAreRefused, OwnersAreServed, TypesOfBoth DEF AccessInv, RolesHold
<1> QED BY <1>1, AccessKept, PTL

\* A project that says it has too many collaborators hides itself from every user: the
\* status and the view count by different queries, for plans found by different queries.
THEOREM TooManyHidesAlways == Spec => []TooManyHides
<1>1. SubscriptionsTypeOK /\ PeopleTypes /\ AccessInv => TooManyHides
    BY TooManyAreHidden DEF AccessInv
<1> QED BY <1>1, AccessKept, PTL

\* No step leaves more members than the plan allows that is current then:
\* OrganizationMember.clean, transfers of the organization included.
THEOREM MembersWithinPlanAlways == Spec => MembersWithinPlan
<1>1. SubscriptionsTypeOK /\ PeopleTypes /\ AccessInv /\ [Next]_vars =>
         [Cardinality(MembersOf(members')) > Cardinality(MembersOf(members)) =>
            \E i \in Current(subs') :
               \/ MaxMembers[subs'[i].plan] = -1
               \/ Cardinality(MembersOf(members')) + 1 <= MaxMembers[subs'[i].plan]]_vars
    BY StepWithinPlan DEF AccessInv
<1> QED BY <1>1, AccessKept, PTL DEF Spec, MembersWithinPlan
=============================================================================

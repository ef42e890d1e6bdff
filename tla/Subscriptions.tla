----------------------------- MODULE Subscriptions -----------------------------
(***************************************************************************)
(* The subscriptions of one organization's account and their additional    *)
(* storage packages: periods on one time line, kept apart by exclusion     *)
(* constraints, created when a request finds no current one.               *)
(*                                                                         *)
(* Abstractions:                                                           *)
(*  - A time is a number of ticks, SecondTicks of them to the second that  *)
(*    replace(microsecond=0) cuts a time down to.  A request happens at    *)
(*    one instant.                                                         *)
(*  - NULL in active_since and in active_until is Never, later than every  *)
(*    time: a draft begins never, and "active_until IS NULL" is no end.    *)
(*  - The status and the seats of a subscription are left out (the current *)
(*    one is found without them), and so is the count of trials an owner   *)
(*    may still begin.                                                     *)
(*  - A billing service and the staff call the class methods below; no     *)
(*    subscription is deleted.                                             *)
(***************************************************************************)
EXTENDS Integers, Sequences, FiniteSets, FiniteSetsExt

CONSTANTS
    Plans,
    MaxMembers,       \* plan.max_organization_members, -1 is unlimited
    MaxCollaborators, \* plan.max_premium_collaborators_per_private_project, -1 is unlimited
    Premium, Trial,   \* the plans with is_premium and with is_trial
    DefaultPlan,      \* the default plan of organizations
    SecondTicks, TrialTicks, Never,
    Quantities,       \* the numbers of packages ordered, 0 is none
    Horizon,          \* bound: the last instant
    MaxRequests       \* bound: the requests that change something

ASSUME SubscriptionsAssumption ==
    /\ DefaultPlan \in Plans \ Trial /\ Premium \subseteq Plans /\ Trial \subseteq Plans
    /\ MaxMembers \in [Plans -> Nat \cup {-1}] /\ MaxCollaborators \in [Plans -> Nat \cup {-1}]
    /\ SecondTicks \in Nat \ {0} /\ TrialTicks \in Nat \ {0}
    /\ Horizon \in Nat /\ MaxRequests \in Nat /\ Quantities \subseteq Nat
    /\ Never \in Nat /\ Never > Horizon + SecondTicks + TrialTicks

VARIABLES
    now,
    subs,     \* the rows by id: the plan and the period
    packages, \* the rows: [sub, quantity, since, until]
    requests, \* those so far
    ordered   \* history: the quantity last ordered for a subscription

subsVars == <<subs, packages, ordered>>

Times == 0..(Horizon + SecondTicks + TrialTicks) \cup {Never}

SubscriptionsTypeOK ==
    /\ now \in 0..Horizon /\ requests \in 0..MaxRequests
    /\ subs \in Seq([plan : Plans, since : Times, until : Times])
    /\ packages \subseteq [sub : DOMAIN subs, quantity : Quantities \ {0}, since : Times, until : Times]
    /\ ordered \in [DOMAIN subs -> Quantities \cup {0}]

Floor(t) == t - (t % SecondTicks)

\* The account has had a subscription since it was created, to what was the
\* default plan by then.
SubscriptionsInit ==
    /\ now = 0 /\ requests = 0
    /\ \E plan \in Plans \ Trial :
          subs = <<[plan |-> plan, since |-> 0, until |-> Never]>>
    /\ packages = {} /\ ordered = <<0>>

\* Bounds how many requests there are.
Counted == requests < MaxRequests /\ requests' = requests + 1

-----------------------------------------------------------------------------
(* Periods.                                                                *)

\* active_since__lte=now and active_until__gte=now: both ends belong to it.
InPeriod(r) == r.since <= now /\ now <= r.until

\* tstzrange(active_since, active_until) is half-open: && of two ranges.
Overlap(r, s) ==
    /\ r.since < r.until /\ s.since < s.until
    /\ r.since < s.until /\ s.since < r.until

\* A range that ends before it begins is an error, a draft has none.
ValidRange(r) == r.since = Never \/ r.since <= r.until

Storable(rows) ==
    /\ \A i \in DOMAIN rows : ValidRange(rows[i])
    /\ \A i, j \in DOMAIN rows : i # j => ~Overlap(rows[i], rows[j])

\* clean: no other subscription is active at the time this one begins.
Clean(rows, i) ==
    rows[i].since # Never =>
        \A j \in DOMAIN rows \ {i} :
            ~(rows[j].since < rows[i].since /\ rows[i].since < rows[j].until)

\* As if clean() were all that keeps the periods apart.
SavesIfClean(rows, i) == Clean(rows, i)

\* save() of row i.
Saves(rows, i) == Clean(rows, i) /\ Storable(rows)

-----------------------------------------------------------------------------
(* The current subscription.                                               *)

Current(rows) == {i \in DOMAIN rows : InPeriod(rows[i])}

\* A subscription is created, or it is not: the outcome is the rows and the
\* row the caller gets, 0 if it gets an error.
Failed(rows) == [rows |-> rows, sub |-> 0]

CreateRow(rows, plan, since, until) ==
    LET more == Append(rows, [plan |-> plan, since |-> since, until |-> until]) IN
    IF Saves(more, Len(more)) THEN [rows |-> more, sub |-> Len(more)] ELSE Failed(rows)

\* A trial is followed by the default plan: two rows, not in one transaction,
\* and the caller gets the second.
CreateSubscription(rows, plan, at) ==
    LET since == IF at = Never THEN Never ELSE Floor(at)
        trial == CreateRow(rows, plan, since, since + TrialTicks) IN
    IF plan \notin Trial THEN CreateRow(rows, plan, since, Never)
    ELSE IF trial.sub = 0 THEN trial
    ELSE CreateRow(trial.rows, DefaultPlan, since + TrialTicks, Never)

\* An organization gets the plan of the subscription that ended last.
NextPlan(rows) ==
    LET ended == {i \in DOMAIN rows : rows[i].until # Never}
        last  == {i \in ended : \A j \in ended : rows[j].until <= rows[i].until} IN
    IF ended = {} THEN {DefaultPlan} ELSE {rows[i].plan : i \in last}

\* get_or_create_current_subscription: what a request may get.
GetOrCreate(rows) ==
    CASE Cardinality(Current(rows)) = 1 ->
            {[rows |-> rows, sub |-> i] : i \in Current(rows)}
      [] Cardinality(Current(rows)) > 1 -> {Failed(rows)}  \* MultipleObjectsReturned
      [] OTHER -> {CreateSubscription(rows, plan, now) : plan \in NextPlan(rows)}

-----------------------------------------------------------------------------
(* The clock and the requests.                                             *)

Tick ==
    /\ now < Horizon
    /\ now' = now + 1
    /\ UNCHANGED <<subs, packages, requests, ordered>>

\* What a change of the subscriptions leaves as it is, and the quantities
\* ordered for new ones.
SubsBecome(rows) ==
    /\ subs' = rows
    /\ ordered' = [i \in DOMAIN rows |-> IF i \in DOMAIN ordered THEN ordered[i] ELSE 0]
    /\ UNCHANGED <<now, packages>>

\* A request that needs the current subscription and creates it.
LookUp ==
    /\ Counted
    /\ Current(subs) = {}
    /\ \E found \in GetOrCreate(subs) : SubsBecome(found.rows)

\* create_subscription, at once or as a draft.
Subscribe(plan, at) ==
    /\ Counted
    /\ plan \in Trial => at # Never
    /\ SubsBecome(CreateSubscription(subs, plan, at).rows)

\* update_subscription of a draft: it begins, and the current one ends by a
\* queryset update() that clean() does not see.
Activate(i, at) ==
    LET ended == [j \in DOMAIN subs |->
                    IF j \in Current(subs) \ {i} THEN [subs[j] EXCEPT !.until = at] ELSE subs[j]]
        rows  == [ended EXCEPT ![i].since = at] IN
    /\ Counted
    /\ subs[i].since = Never
    /\ Storable(ended) /\ Saves(rows, i)
    /\ SubsBecome(rows)

\* update_subscription of another one: it is cancelled, now or at the end of
\* the period, or goes on after all.
SetUntil(i, until) ==
    LET rows == [subs EXCEPT ![i].until = until] IN
    /\ Counted
    /\ subs[i].since # Never /\ subs[i].until # until
    /\ Saves(rows, i)
    /\ SubsBecome(rows)

-----------------------------------------------------------------------------
(* Additional packages.                                                    *)

\* As if a package began to count the instant after active_since.
FuturePackagesAfter(i) == {p \in packages : p.sub = i /\ p.since > now}

FuturePackages(i) == {p \in packages : p.sub = i /\ p.since >= now}

ActivePackages(P, i) == {p \in P : p.sub = i /\ InPeriod(p)}

\* Packages are stored one after the other in time.
StorablePackages(P) ==
    /\ \A p \in P : ValidRange(p)
    /\ \A p, q \in P : p # q /\ p.sub = q.sub => ~Overlap(p, q)

\* set_package_quantity: one transaction.
SetPackageQuantity(i, quantity, since) ==
    LET at     == Floor(since)
        kept   == packages \ FuturePackages(i)
        old    == ActivePackages(kept, i)
        rest   == (kept \ old) \cup {[p EXCEPT !.until = at] : p \in old}
        new    == {[sub |-> i, quantity |-> quantity, since |-> at, until |-> Never]} IN
    /\ Counted
    /\ subs[i].plan \in Premium
    /\ Cardinality(old) <= 1
    /\ StorablePackages(rest)
    /\ packages' = IF quantity > 0 THEN rest \cup new ELSE rest
    /\ StorablePackages(packages')
    /\ ordered' = [ordered EXCEPT ![i] = quantity]
    /\ UNCHANGED <<now, subs>>

\* get_future_package_quantity: the quantity from the next change on.
FutureQuantity(i) ==
    LET first(P) == CHOOSE p \in P : \A q \in P : p.since <= q.since
        future   == FuturePackages(i)
        active   == ActivePackages(packages, i) IN
    IF future # {} THEN first(future).quantity
    ELSE IF active # {} /\ first(active).until = Never THEN first(active).quantity
    ELSE 0

Later == {now, now + SecondTicks}

SubscriptionsNext ==
    \/ LookUp
    \/ \E plan \in Plans, at \in {now, Never} : Subscribe(plan, at)
    \/ \E i \in DOMAIN subs, at \in Later : Activate(i, at)
    \/ \E i \in DOMAIN subs, until \in Later \cup {Never} : SetUntil(i, until)
    \/ \E i \in DOMAIN subs, q \in Quantities, since \in Later : SetPackageQuantity(i, q, since)

-----------------------------------------------------------------------------
(* Properties.                                                             *)

\* Every request finds the current subscription or can create it, when none is
\* to begin yet and none has ended in the second that has begun: in that second
\* active_since is cut down to a time before the end of the last one, and at
\* the very instant two subscriptions meet both are current.
ServedOffBoundaries ==
    (\A i \in DOMAIN subs :
        /\ subs[i].until \notin Floor(now)..now
        /\ subs[i].since <= now \/ subs[i].since = Never)
    => \A found \in GetOrCreate(subs) : found.sub # 0

\* Whatever was ordered when, and whichever package rows are future, active or
\* past by now, the quantity the account is told it will have is the last one
\* ordered.
OrderedQuantity == \A i \in DOMAIN subs : FutureQuantity(i) = ordered[i]
=============================================================================

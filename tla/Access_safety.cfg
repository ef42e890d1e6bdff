SPECIFICATION Spec
CONSTANTS
    basicPlan = basicPlan
    proPlan = proPlan
    trialPlan = trialPlan
    o = o
    u = u
    v = v
    Plans <- PlansMC
    MaxMembers <- MaxMembersMC
    MaxCollaborators <- MaxCollaboratorsMC
    Premium = {proPlan}
    Trial = {trialPlan}
    DefaultPlan = basicPlan
    Cancellable = {proPlan, trialPlan}
    Modifiable = {basicPlan, proPlan}
    SecondTicks = 2
    TrialTicks = 2
    Never = 99
    Quantities = {0, 1}
    Horizon = 4
    MaxRequests = 3
    People = {o, u, v}
    Organization = organization
    Team = team
    Founder = o
    PersonPlan = proPlan
    Roles = {"manager", "reader"}
    None = None
SYMMETRY Symmetry
INVARIANT ServedOffBoundaries
INVARIANT OrderedQuantity
INVARIANT RolesHold
INVARIANT TooManyHides
PROPERTY MembersWithinPlan
CHECK_DEADLOCK FALSE

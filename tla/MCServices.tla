------------------------------ MODULE MCServices ------------------------------
EXTENDS Services

CONSTANTS ann, bob, cat, qfield, sdk, e1, r1, r2, p1, p2, u1, u2, n1, free, paid

\* Pairs of interchangeable values: requests, and accounts, data files or projects,
\* of which one part only has any at a time.
CONSTANTS t1, t2, x1, x2

Symmetry == Permutations({t1, t2}) \cup Permutations({x1, x2})

QgisFilesOfProjects == {{"online", "shared"}, {"file", "absent"}}

\* Every workflow in a container of Docker, one of them as tasks of ECS too.
KindsOfJobs ==
    [type: {"package", "process_projectfile", "delta_apply", "create_project"}, executor: {"docker"}]
        \cup [type: {"delta_apply"}, executor: {"ecs"}]
=============================================================================

CONSTANTS
    None = None
    t1 = t1  t2 = t2
    o1 = o1  o2 = o2
    n1 = n1  n2 = n2  n3 = n3
    s1 = s1  s2 = s2
    ra = ra  rb = rb
    Owner = {o1, o2}
    Name = {n1, n2, n3}
    Skeleton = {s1, s2}
    SkeletonOf <- MCSkeletonOf
    Target = {t1, t2}
    Replica = {ra, rb}
    OwnerOf <- MCOwnerOf
    Call = {c1}
    MaxNodes = 3
    MaxMisreads = 1
SPECIFICATION Spec
INVARIANTS SkeletonsMirrorNames HeldByClaim NamesOnlyMoveForward AgreePerSkeleton
CHECK_DEADLOCK FALSE
SYMMETRY MCSymmetry

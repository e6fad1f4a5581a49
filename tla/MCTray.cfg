SPECIFICATION FairSpec
CONSTANT Proc = {p1, p2, p3}
INVARIANTS TypeOK SingleInstance
PROPERTY ShowHonoured

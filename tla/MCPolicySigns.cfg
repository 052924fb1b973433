SPECIFICATION PolicySpec
CONSTANTS Parts = {p1,p2}
IPs = {"i1"}
Appliers = {q1,q2}
MaxPolicyChanges=2
MaxPolicyApplies=2
MaxRestarts=1
CHECK_DEADLOCK FALSE
INVARIANT SendersSign

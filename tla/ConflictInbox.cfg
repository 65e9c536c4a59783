CONSTANTS
    Actions = {a1, a2}
    GateDecisions = {"ALLOW", "REFUSE", "ESCALATE"}
SPECIFICATION InboxSpec
INVARIANTS ResolutionStands OperatorDecides
SYMMETRY ActionSymmetry

SPECIFICATION Spec
CONSTANTS
    Ids = {id1, id2}
    Accounts = {admin, alice, bob}
    Admin = admin
    Nobody = Nobody
    Supply = 2
SYMMETRY Symmetry
INVARIANTS Backed PaidAsAgreed
\* When every escrow is settled and the owner has resigned nothing is left to do.
CHECK_DEADLOCK FALSE

SPECIFICATION RLSpec
CONSTANTS
    Callers = {c1, c2}
    Branches = {b1}
    Documents = {d1}
    Services = {"post_sale", "close_cash_session"}
INVARIANTS
    NoCircularWait

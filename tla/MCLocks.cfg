SPECIFICATION RLSpec
CONSTANTS
    Callers = {c1, c2, c3}
    Branches = {b1, b2}
    Documents = {d1}
    Services = {"save_sale_return_draft", "receive_purchase", "reverse_purchase_return",
        "post_supplier_return_settlement", "start_stock_count"}
INVARIANTS
    NoCircularWait
PROPERTIES
    EveryCallEnds

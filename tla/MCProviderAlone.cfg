\* Two balance requests at once, the operator acts at any moment.
SPECIFICATION Spec
CONSTANTS
    Exchanges = {binance, bitkub}
    Requests = {q1, q2}
INVARIANTS
    TypeOK
    SwitchedBack
    OwnAccountRead

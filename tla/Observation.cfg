SPECIFICATION Spec
CONSTANTS
    t1 = t1
    t2 = t2
    Transfers = {t1, t2}
    NULL = NULL
    Amount <- MCAmount
    Expected = 3
    Rails = {"btc", "erc20", "eth"}
    Configs <- MCConfigs
    MaxHeight = 3
    MaxReorgs = 2
    MaxFaults = 1
INVARIANTS TypeOK ConfirmationsNotOverstated ConfirmedIsBacked PaymentNoticed
CHECK_DEADLOCK FALSE
SYMMETRY TransferSymmetry

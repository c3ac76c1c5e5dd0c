SPECIFICATION Spec
CONSTANTS
    l1 = l1
    l2 = l2
    Launch = {l1, l2}
    Retries = 2
    None = None
    Cut = Cut
    Environments <- MCEnvironments
INVARIANTS BootTypeOK SecretsWiped RunsOnItsOwnSecrets
PROPERTIES TransferDecides CalmBootServes
CHECK_DEADLOCK FALSE

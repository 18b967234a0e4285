SPECIFICATION Spec
CONSTANTS
    Releases = {r1, r2}
    Commands = {c1}
    Workers = {w1}
    Zone = "behind"
    None = None
PROPERTIES VerifiedByDeployed

SPECIFICATION RotSpec
CONSTANTS
    f1 = f1
    c1 = c1
    c2 = c2
    s1 = s1
    s2 = s2
    a1 = a1
    k1 = k1
    k2 = k2
    Folder = {f1}
    Cipher = {c1, c2}
    Send = {s1, s2}
    File = {a1}
    Home <- HomeOfFile
    Key = {k0, k1, k2}
    FirstKey = k0
    Session = {d1, d2}
    Req = {r1, r2}
    RotWorkloads <- Rotations
    BatchSize = 1
    None = None
SYMMETRY Symmetry
INVARIANTS RotTypeOK OneKey
CHECK_DEADLOCK FALSE

SPECIFICATION ProfileSpec
CONSTANTS
    minor = minor
    major = major
    v1 = v1
    v2 = v2
    weak = weak
    strong = strong
    good = good
    Viewer = {v1, v2}
    Finding = {minor, major}
    Severity <- TwoSeverities
    Score = {weak, strong}
    Verdict = {good}
    NoValue = NoValue
    Keep = 2
SYMMETRY Symmetry
INVARIANTS ProfileTypeOK RollupsStand SeverityShown

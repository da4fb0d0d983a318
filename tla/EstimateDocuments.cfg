SPECIFICATION Spec
CONSTANTS
    None = None
    run1 = run1
    upload1 = upload1
    Estimate = {e1, e2}
    Run = {run1}
    Cost <- MCCost
    Upload = {upload1}
    OrganizationRule <- MCOrganizationRule
    SystemRule <- MCSystemRule
    DefaultPrice <- MCDefaultPrice
    Input <- MCInput
    Format = {pdf, html}
    Attempt = {a1, a2}
SYMMETRY Symmetry
INVARIANTS
    TypeOK
    AmountsMatchItems
    RepeatsNeedOverlap
CHECK_DEADLOCK FALSE

SPECIFICATION LiveSpec
CONSTANTS
    Session = {"req", "cron"}
    Sweeper = {"cron"}
    Nobody = "nobody"
    Vendor = {"acme"}
    Art = {"a1", "a2"}
    NoArt = "none"
    Sanctions = "sanctions"
    OwnerOf <- MCOwnerOf
    WordOf <- MCWordOf
    VendorWords <- MCVendorWords
INVARIANTS SingleSanctionsIssue
PROPERTIES SweepRaisesOnce RefreshSettles VerdictPrevails OverdueIsRaised

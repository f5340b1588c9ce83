CONSTANT Cases <- AllCases
SPECIFICATION Spec
INVARIANTS ScrapeAccepted BackendsAgree EnumsAreWhole NumbersAsSent TargetsAreShown

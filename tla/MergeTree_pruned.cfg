SPECIFICATION Spec
CONSTANTS
    p1 = p1
    p2 = p2
    Port <- TwoPorts
    Legacy <- LegacyPort
    Active <- ActivePort
    MaxVersion = 2
    MaxTrouble = 1
    Chosen = {"PORT", "LOCK", "MASK", "DPORT"}
    Fragile <- ActivePort
    Numeric <- SameNumber
PROPERTIES PrunedIsDeleted

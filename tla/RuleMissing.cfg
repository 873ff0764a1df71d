SPECIFICATION Spec
CONSTANTS
    MaxAmount = 63
    Mantissa = 32
    Fraction = 1024
    Powers <- MCPowers
    Supported = {"USD", "JPY"}
    Unsupported = {""}
    Undivided = "JPY"
    Cents = 11
    Substrings <- MCSubstrings
    RuleSets <- MCRuleSets
    JSONValues <- MCJSONValues
    Rest <- MCRest
    Parts = {0, 3, 6, 22, 54, 128}
    Amounts <- MCAmounts
    Lines <- MCLines
    Multipliers = {0, 2, 3}
    MaxWorth = 100
INVARIANTS MissingFieldNeverMatches

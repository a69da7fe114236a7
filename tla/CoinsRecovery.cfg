CONSTANTS
    Blocks <- MCBlocks
    Genesis = "g"
    Null = "null"
    Parent <- MCParent
    Ancestors <- MCAncestors
    Outpoints <- MCOutpoints
    Creates <- MCCreates
    Spends <- MCSpends
    Coin <- MCCoin
    Coins = {0, 1, 2, 3}
    Spent = Spent
    Utxo <- MCUtxo
    Coinbases = {"o1"}
    Legacy <- MCLegacy
    MaxCrashes = 2
    MaxFailures = 1
SPECIFICATION FairSpec
INVARIANTS BestIsConsistent TipIsConsistent DisconnectIsClean HeadsMatch
 

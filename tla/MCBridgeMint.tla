---------------------------- MODULE MCBridgeMint ----------------------------
EXTENDS BridgeMint

CONSTANTS w1, w2, other

MCWriters    == {w1, w2}
MCLockers    == {Bridge, other}
MCDeposits   == <<1, 0, 25>>
MCMintCounts == {0, 1, 25}
MCMintData   == UNION {GroupsOf(h) : h \in Heights}

LiveWriters    == {w1}
LiveLockers    == {Bridge}
LiveDeposits   == <<49, 24, 0, 25>>
LiveMintCounts == {0, 24, 25, 49}
=============================================================================

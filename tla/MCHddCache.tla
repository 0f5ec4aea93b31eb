----------------------------- MODULE MCHddCache -----------------------------
EXTENDS HddCache

\* The super block, a block of each of four groups, a second one of a group.
FewBlocks == {<<0, 1>>, <<1, 0>>, <<1, 1>>, <<2, 0>>, <<3, 0>>}
=============================================================================

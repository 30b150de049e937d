--------------------------- MODULE MCConsumerLife ----------------------------
EXTENDS ConsumerLife
=============================================================================

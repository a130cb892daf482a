------------------------------ MODULE MCMiner ------------------------------
EXTENDS Miner
=============================================================================

---------------------------- MODULE MCIpcClient ----------------------------
EXTENDS IpcClient, TLC

IpcSymmetry == Permutations(Request)
=============================================================================

----------------------------- MODULE MCRemoteRun -----------------------------
EXTENDS RemoteRun, TLC
\* Only the first run reports work; the second is there to meet its remains.
MCMaxWork == 1 :> 1 @@ 2 :> 0
MCOneEvent == 1 :> 1
=============================================================================

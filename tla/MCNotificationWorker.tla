------------------------ MODULE MCNotificationWorker ------------------------
EXTENDS NotificationWorker, TLC

CONSTANTS j1, j2

Ages == j1 :> 1 @@ j2 :> 2

Symmetry == Permutations(Worker)
=============================================================================

----------------------------- MODULE MCDevices -----------------------------
(* The protocols with a client on the other side, for TLC: print agents,     *)
(* handhelds and browser tabs share no state, so while one runs the others  *)
(* rest.                                                                    *)
EXTENDS PrintQueue, OfflineScans, BrowserSession, TLC

devicesVars == <<printVars, offlineVars, browserVars>>
DevicesTypeOK == PrintTypeOK /\ OfflineTypeOK /\ BrowserTypeOK

Printing == spare.jobs + Len(jobs) > 0
Browsing == past.logins + Len(grant) > 0
DevicesInit == PrintInit /\ OfflineInit /\ BrowserInit /\ ~(Printing /\ Browsing)
DevicesNext ==
  \/ Printing /\ PrintNext   /\ UNCHANGED <<offlineVars, browserVars>>
  \/ Browsing /\ BrowserNext /\ UNCHANGED <<offlineVars, printVars>>
  \/ ~Printing /\ ~Browsing /\ OfflineNext /\ UNCHANGED <<printVars, browserVars>>

OnePrinterAgent == [a \in Agent |-> IF a = "a1" THEN {"p1"} ELSE {"p1", "p2"}]
OneCode == {<<1>>}
PrintBudgets == {[jobs |-> 1, edits |-> 2, mishaps |-> 1], [jobs |-> 2, edits |-> 0, mishaps |-> 1],
                 [jobs |-> 0, edits |-> 0, mishaps |-> 0]}
BrowserBudgets == {[logins |-> 2, faults |-> 0], [logins |-> 1, faults |-> 1],
                   [logins |-> 0, faults |-> 0]}

DevicesSpec == DevicesInit /\ [][DevicesNext]_devicesVars /\ PrintFairness
=============================================================================

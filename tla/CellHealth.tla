------------------------------ MODULE CellHealth ------------------------------
(***************************************************************************)
(* The health loop and the program of the cell it watches.  "serving" of   *)
(* the loop is what /healthz shows of the program: its control server.     *)
(***************************************************************************)
EXTENDS CellProxy, HealthMonitor

cvars == <<vars, cellVars>>

CInit == Init /\ CellInit

\* The probe of /healthz gets an answer.
Answering == run \in {"serving", "stopping"} /\ server["control"] = "up"

\* A step of the cell's program, while its container is there.
InCell ==
  /\ listed
  /\ serving' = Answering'
  /\ UNCHANGED <<slot, listed, age, since, url>>

CFails(s) == ServerFails(s) /\ InCell
CReports(s) == ServerReports(s) /\ InCell
CSelects(signal) == RunSelects(signal) /\ InCell
CShutdown == Shutdown /\ InCell
CTraffic == Traffic /\ InCell

\* A request spawns a cell, which is in the slot once it answers.
CSpawn == Spawn /\ RunListens

\* The program hangs: it takes no more steps.
CHangs ==
  /\ Hangs
  /\ run \in {"serving", "stopping"} /\ run' = "hung"
  /\ UNCHANGED <<server, errs, recorder, conn>>

\* The entrypoint waits for the program: Run has returned, or it was killed.
CDies == Dies /\ CellGone

CListsCells(reached) == ListsCells(reached) /\ UNCHANGED cellVars

\* The loop; a cell it kills is gone with its program.
CCheckHealth ==
  /\ CheckHealth
  /\ IF slot' = "empty" THEN CellGone ELSE UNCHANGED cellVars

CClock == Clock /\ UNCHANGED cellVars

CNext ==
  \/ CSpawn \/ CHangs \/ CDies \/ CCheckHealth \/ CClock
  \/ \E reached \in BOOLEAN : CListsCells(reached)
  \/ \E s \in Servers : CFails(s) \/ CReports(s)
  \/ \E signal \in BOOLEAN : CSelects(signal)
  \/ CShutdown \/ CTraffic

CSpec == CInit /\ [][CNext]_cvars

\* The program's goroutines run unless it hangs, and its exit ends the container.
\* Time passes, the ticker fires, and docker answers the loop now and then.
CFairSpec ==
  /\ CSpec
  /\ WF_cvars(CClock) /\ WF_cvars(CCheckHealth)
  /\ SF_cvars(CListsCells(TRUE)) /\ WF_cvars(\E reached \in BOOLEAN : CListsCells(reached))
  /\ \A s \in Servers : WF_cvars(CReports(s))
  /\ WF_cvars(CSelects(FALSE)) /\ WF_cvars(CShutdown)
  /\ WF_cvars(CDies /\ run = "returned")

-----------------------------------------------------------------------------
\* A cell one of whose servers has failed, or that hangs, leaves its slot or
\* docker's list, also when the server that failed is the SOCKS5 server, which no
\* probe asks: Run then ends the control server too (Run, serve, checkHealth).
BrokenCellReaped ==
  LET Broken == run = "hung" \/ \E s \in Servers : server[s] \notin {"up", "off"}
  IN  CellNetwork /\ slot = "hot" /\ listed /\ Broken ~> slot = "empty" \/ ~listed

=============================================================================

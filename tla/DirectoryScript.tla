--------------------------- MODULE DirectoryScript ---------------------------
(***************************************************************************)
(* The run that src/HW5-2 makes: runSimulation plays its list of           *)
(* transitions once for each of the four CPUs.                             *)
(***************************************************************************)
EXTENDS DirectorySystem, Sequences

VARIABLE step    \* the number of transitions played

\* The transitions, without their descriptions: CPU, address, datum, isRead.
Transitions ==
    << <<2, 10, 0, FALSE>>, <<3, 11, 0, TRUE>>, <<0, 13, 250, FALSE>>,
       <<1, 14, 0, FALSE>>, <<0, 0, 200, TRUE>>, <<1, 0, 100, FALSE>>,
       <<2, 1, 0, FALSE>>, <<3, 2, 0, TRUE>>, <<1, 3, 0, TRUE>>, <<0, 4, 0, TRUE>> >>

ScriptInit == Init /\ step = 0

Play ==
    /\ step < NumCPU * Len(Transitions)
    /\ LET t == Transitions[(step % Len(Transitions)) + 1]
       IN  IF t[4] THEN Read(t[1], t[2]) ELSE Write(t[1], t[2], t[3])
    /\ step' = step + 1

ScriptSpec == ScriptInit /\ [][Play]_<<vars, step>> /\ WF_<<vars, step>>(Play)

=============================================================================

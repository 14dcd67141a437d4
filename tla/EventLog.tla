------------------------------ MODULE EventLog ------------------------------
(* What the event ring promises to the process that polls it: one log in the  *)
(* order in which sequence numbers are handed out, read record by record with *)
(* no gap.  A reader may skip forward; nothing it has passed comes back.      *)
EXTENDS Naturals, Sequences

VARIABLES
    log,  \* the records, in sequence order
    read, \* sequence number of the last record read or skipped
    out   \* what the last poll returned: <<>> or <<[seq, rec]>>

logvars == <<log, read, out>>

LogInit == log = <<>> /\ read = 0 /\ out = <<>>

Publish == /\ Len(log') = Len(log) + 1
           /\ SubSeq(log', 1, Len(log)) = log
           /\ UNCHANGED <<read, out>>

Ask == out' = <<>> /\ UNCHANGED <<log, read>>

Deliver == /\ read < Len(log)
           /\ read' = read + 1
           /\ out' = <<[seq |-> read + 1, rec |-> log[read + 1]]>>
           /\ UNCHANGED log

Skip == /\ read' \in read + 1 .. Len(log)
        /\ UNCHANGED <<log, out>>

Reset == /\ log' = <<>> /\ read' = 0 /\ out' = <<>>

LogNext == Publish \/ Ask \/ Deliver \/ Skip \/ Reset

LogSpec == LogInit /\ [][LogNext]_logvars
=============================================================================

----------------------------- MODULE MCExamples -----------------------------
EXTENDS Examples

App(name, probes, rounds, compact, bound) ==
  [app |-> name, probes |-> probes, rounds |-> rounds, compact |-> compact,
   reconnects |-> bound]

(* Between them: every function of the mains, both kinds of answer, a cancelled
   answer before another one, two rounds, and reconnects while audio is sent. *)
MCPrograms ==
  { App("append", {}, 0, FALSE, 1), App("text", {"cancel"}, 1, FALSE, 0),
    App("text", {"pro", "history"}, 1, TRUE, 0), App("audio", {"api", "cancel", "image"}, 1, FALSE, 0),
    App("audio", {"pro"}, 2, TRUE, 0), App("audio", {}, 1, TRUE, 1) }

MCAudio == <<1, 2, 3>>
=============================================================================

--------------------------- MODULE MCDiagnostics ---------------------------
(* Small instances of Diagnostics for TLC.                                  *)
EXTENDS DiagnosticsProofs

\* One text per outcome; the good ones carry 0 and 2 diagnostics (more than
\* the channel holds).
MCTexts == {"clean", "partial", "unlexable", "unparsable", "outermost", "truncated", "bare"}
MCOutcome ==
    [t \in Texts |->
        CASE t \in {"clean", "partial"} -> "ok"
          [] t = "unlexable"  -> "lexError"
          [] t = "unparsable" -> "parseError"
          [] t = "outermost"  -> "desugarError"
          [] t = "truncated"  -> "parsePanic"
          [] t = "bare"       -> "desugarPanic"]
MCNumDiags ==
    [t \in Texts |-> IF t \in {"partial", "unparsable"} THEN 2 ELSE 0]

============================================================================

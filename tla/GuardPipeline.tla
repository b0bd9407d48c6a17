----------------------------- MODULE GuardPipeline -----------------------------
(***************************************************************************)
(* GuardPipeline.evaluate over the stages of the default output guard, or  *)
(* over one guard injected in their place.  A stage sees the text as the   *)
(* stages before it left it, and the first that blocks has the last word.  *)
(*                                                                         *)
(* A text is a sequence of pieces.  A "head" with a "tail" behind it is a  *)
(* credential, a "leak" is what the leak guard's patterns find (or the     *)
(* theft instructions that the secret guard blocks), a "mask" is the       *)
(* placeholder of something redacted.  BLOCK stands for REVIEW and for a   *)
(* stage that throws or whose result is invalid as well: either way the    *)
(* turn fails.                                                             *)
(***************************************************************************)
EXTENDS Integers, Sequences, SequencesExt

Pieces == {"head", "tail", "leak"}

Credential(text, i) == i \in 1 .. Len(text) - 1 /\ text[i] = "head" /\ text[i + 1] = "tail"
HasCredential(text) == \E i \in DOMAIN text : Credential(text, i)
HasLeak(text) == \E i \in DOMAIN text : text[i] = "leak"

Verdict(action, text) == [action |-> action, text |-> text]

(* StaticSecretGuard: every credential gives way to the placeholder.       *)
Redacted(text) ==
    FoldLeft(LAMBDA kept, i : CASE Credential(text, i)     -> Append(kept, "mask")
                                [] Credential(text, i - 1) -> kept
                                [] OTHER                   -> Append(kept, text[i]),
             <<>>, [i \in 1 .. Len(text) |-> i])

StaticSecretGuard(text) ==
    Verdict(IF HasCredential(text) THEN "REDACT" ELSE "ALLOW", Redacted(text))

StaticOutputLeakGuard(text) ==
    Verdict(IF HasLeak(text) THEN "BLOCK" ELSE "ALLOW", text)

(* An injected guard lets nothing pass that the default ones object to; it *)
(* may object to anything else, and redacts all of it.                     *)
Injected(text) ==
    {Verdict("REDACT", <<"mask">>), Verdict("BLOCK", text)}
        \cup (IF HasCredential(text) \/ HasLeak(text) THEN {} ELSE {Verdict("ALLOW", text)})

(* The stages; the no-op ones at the end allow everything.                 *)
Stages(guard) ==
    IF guard = "default" THEN <<"secret", "leak", "noop">> ELSE <<"injected">>

Verdicts(stage, text) ==
    CASE stage = "secret"   -> {StaticSecretGuard(text)}
      [] stage = "leak"     -> {StaticOutputLeakGuard(text)}
      [] stage = "noop"     -> {Verdict("ALLOW", text)}
      [] stage = "injected" -> Injected(text)

(* The verdict so far and that of the next stage on its text.              *)
Combined(sofar, next) ==
    Verdict(IF next.action = "ALLOW" THEN sofar.action ELSE next.action, next.text)

Evaluate(guard, text) ==
    FoldLeft(LAMBDA verdicts, stage :
                 {v \in verdicts : v.action = "BLOCK"}
                 \cup UNION {{Combined(v, next) : next \in Verdicts(stage, v.text)} :
                                v \in {w \in verdicts : w.action # "BLOCK"}},
             {Verdict("ALLOW", text)}, Stages(guard))

=============================================================================

----------------------------- MODULE GuardedCall -----------------------------
(***************************************************************************)
(* An instrumented LLM or tool call under the guardrail: llm_call(),       *)
(* tool_call(), _guard_call() and _apply_guardrail() of observability.py,  *)
(* content_sampling.py, GuardrailEngine.check_input() and the lazy         *)
(* injection classifier.  check_input() never suspends, so the check       *)
(* before the call is one step and what follows the body another.          *)
(*                                                                         *)
(* A text is abstracted to what checks and sampling tell apart: whether    *)
(* it holds a PII entity and where that lies relative to the 200th         *)
(* character, and how the classifier would score it.  "fragment" is what   *)
(* a cut leaves of an entity: text no detector recognises.                 *)
(***************************************************************************)
EXTENDS PIIVault

CONSTANTS
  Calls,         \* llm_call and tool_call contexts
  Inputs,        \* the texts a caller passes in
  Outputs,       \* the texts a call returns
  NoText,        \* an attribute that is not set
  Redacted,      \* "[REDACTED:guardrail_unavailable]"
  Digest         \* the sha256 and length kept instead of a text

VARIABLES
  gcall,    \* per call: where it stands, its arguments, its verdict and attributes
  model,    \* InjectionClassifier._model_loaded / _model
  sent,     \* texts whose call's body was entered: the request left the process
  exported  \* spans that _enqueue took, as their text attributes

guardVars == <<gcall, model, sent, exported>>

Pii == {"none", "before", "across", "after", "fragment"}
Scores == {"benign", "suspicious", "injection"}
Texts == [pii : Pii, score : Scores]

ASSUME GuardAssumption == Inputs \cup Outputs \subseteq Texts \cup {NoText}

GuardInit == /\ gcall = [c \in Calls |-> [pc |-> "idle"]]
             /\ model = "unloaded" /\ sent = {} /\ exported = {}

-----------------------------------------------------------------------------
(* The guardrail engine.                                                    *)

Detects(text) == text.pii \in {"before", "across", "after"}
Mask(text) == IF Detects(text) THEN [text EXCEPT !.pii = "none"] ELSE text

\* _load_model: one try per process; a failure is remembered like a success.
LoadedModels == IF model = "unloaded" THEN {"loaded", "failed"} ELSE {model}

\* classify: fails open without a model.
Score(text, m) == IF m = "failed" THEN "benign" ELSE text.score

\* Mutant of Verdict: the thresholds are swapped.
VerdictSwapped(score) ==
  CASE score = "injection" -> "flag" [] score = "suspicious" -> "block" [] OTHER -> "clean"

\* _resolve_verdict
Verdict(score) ==
  CASE score = "injection" -> "block" [] score = "suspicious" -> "flag" [] OTHER -> "clean"

\* check_input: mask, store the original, classify, audit.  A store that
\* fails leaves no trace in the verdict.  Returns the new vault as well.
CheckInput(v, text, tenant, m) ==
  [verdict |-> Verdict(Score(text, m)), masked |-> Mask(text),
   v |-> IF Detects(text) THEN Store(v, tenant).v ELSE v]

-----------------------------------------------------------------------------
(* Content sampling.                                                        *)

\* attach_llm_content: the whole text or its digest.
LLMContent(text, keep) == IF text = NoText THEN NoText ELSE IF keep THEN text ELSE Digest

\* attach_tool_content: the first 200 characters, sampled or not.
Summary(text) ==
  CASE text.pii = "across" -> [text EXCEPT !.pii = "fragment"]
    [] text.pii = "after"  -> [text EXCEPT !.pii = "none"]
    [] OTHER               -> text

\* Attributes of the span when the context manager exits.
Attached(g) ==
  IF g.kind = "llm"
  THEN [input |-> LLMContent(g.text, g.keep), output |-> LLMContent(g.output, g.keep)]
  ELSE [input |-> IF g.text = NoText THEN NoText ELSE Summary(g.text), output |-> g.output]

-----------------------------------------------------------------------------
(* The call.                                                                *)

\* _guard_call: an exception of the check goes to the caller, and so does a
\* block; neither enters the body.  The verdict is cached with its text.
GuardCall(c, kind, text, output, keep, tenant) ==
  LET g == [pc |-> "body", kind |-> kind, text |-> text, output |-> output, keep |-> keep,
            tenant |-> tenant, cached |-> NoText, verdict |-> "none"]
  IN  /\ gcall[c].pc = "idle"
      /\ IF text = NoText
         THEN /\ gcall' = [gcall EXCEPT ![c] = g] /\ sent' = sent \cup {text}
              /\ UNCHANGED <<vault, model>>
         ELSE \/ \E m \in LoadedModels :
                   LET r == CheckInput(vault, text, tenant, m)
                   IN  /\ gcall' = [gcall EXCEPT ![c] =
                             [g EXCEPT !.pc = IF r.verdict = "block" THEN "exit" ELSE "body",
                                       !.cached = text, !.verdict = r.verdict]]
                       /\ sent' = IF r.verdict = "block" THEN sent ELSE sent \cup {text}
                       /\ vault' = r.v /\ model' = m
              \/ /\ gcall' = [gcall EXCEPT ![c] = [g EXCEPT !.pc = "exit"]]
                 /\ UNCHANGED <<sent, vault, model>>
      /\ UNCHANGED exported

\* The body ends, normally or with an exception.  A tool's output is set on
\* the span by the caller.
BodyEnds(c, output) ==
  /\ gcall[c].pc = "body"
  /\ gcall' = [gcall EXCEPT ![c].pc = "exit",
                            ![c].output = IF gcall[c].kind = "tool" THEN output ELSE @]
  /\ UNCHANGED <<vault, model, sent, exported>>

\* Mutant of Applied: a failing check lets the text through.
AppliedOpen(v, text, cached, tenant, m, works) ==
  IF text \in {NoText, Digest} \/ text = cached
  THEN [text |-> IF text \in {NoText, Digest} THEN text ELSE Mask(text), v |-> v]
  ELSE IF works THEN LET r == CheckInput(v, text, tenant, m) IN [text |-> r.masked, v |-> r.v]
       ELSE [text |-> text, v |-> v]

\* _apply_guardrail for one attribute: a verdict cached for the same text is
\* reused, a failing check redacts.  Returns the attribute and the vault.
Applied(v, text, cached, tenant, m, works) ==
  IF text \in {NoText, Digest} \/ text = cached
  THEN [text |-> IF text \in {NoText, Digest} THEN text ELSE Mask(text), v |-> v]
  ELSE IF works THEN LET r == CheckInput(v, text, tenant, m) IN [text |-> r.masked, v |-> r.v]
       ELSE [text |-> Redacted, v |-> v]

\* The finally block: content, _apply_guardrail over the text attributes in
\* order, and the span enters the pipeline.
Exit(c) ==
  LET g == gcall[c]  a == Attached(g)
  IN  /\ g.pc = "exit"
      /\ \E m \in LoadedModels, worksIn, worksOut \in BOOLEAN :
           LET i == Applied(vault, a.input, g.cached, g.tenant, m, worksIn)
               o == Applied(i.v, a.output, NoText, g.tenant, m, worksOut)
               checks == \E t \in {a.input, a.output} \ {NoText, Digest, g.cached} : TRUE
           IN  /\ exported' = exported \cup {[input |-> i.text, output |-> o.text]}
               /\ vault' = o.v
               /\ model' = IF checks THEN m ELSE model
      /\ gcall' = [gcall EXCEPT ![c] = [pc |-> "done"]]
      /\ UNCHANGED sent

GuardNext ==
  /\ \E c \in Calls :
       \/ \E kind \in {"llm", "tool"}, text \in Inputs, output \in Outputs,
             keep \in BOOLEAN, t \in Roles : GuardCall(c, kind, text, output, keep, t)
       \/ \E output \in Outputs : BodyEnds(c, output)
       \/ Exit(c)
  /\ UNCHANGED <<now, up, attempts, call, audit, returned, failures>>

\* Guarded calls fill the vault while engineers recover from it, secrets
\* expire and its addresses come and go.
GuardSpec ==
  /\ VaultInit /\ GuardInit
  /\ [][\/ GuardNext
        \/ (VaultNext \/ AddrsNext) /\ UNCHANGED guardVars]_<<vaultVars, guardVars>>
-----------------------------------------------------------------------------
(* Properties.                                                              *)

GuardTypeOK ==
  /\ \A c \in Calls : gcall[c].pc \in {"idle", "body", "exit", "done"}
  /\ model \in {"unloaded", "loaded", "failed"} /\ sent \subseteq Inputs
  /\ \A s \in exported : {s.input, s.output} \subseteq Texts \cup {NoText, Digest, Redacted}

\* The variables of the vault and of the calls keep their types.
GuardrailTypeOK == VaultTypeOK /\ GuardTypeOK

\* No detectable entity is in a span that was exported, whichever hook, cached
\* verdict, sampling decision or failing check its text went through.
NoEntityExported ==
  \A s \in exported : \A text \in {s.input, s.output} \ {NoText, Digest, Redacted} : ~Detects(text)

\* A request the classifier would block leaves the process only if the model
\* could not be loaded.
InjectionNotSent ==
  \A text \in sent \ {NoText} : text.score = "injection" => model = "failed"

\* Refuted: "Masking happens first so no plaintext PII can reach a container log
\* or a backend" (observability.py, _enqueue).  An entity cut by the summary of a
\* tool input is not recognised any more.
NoFragmentExported ==
  \A s \in exported : \A text \in {s.input, s.output} \ {NoText, Digest, Redacted} : text.pii = "none"
=============================================================================

----------------------------- MODULE HookResponse ---------------------------
(* How the second hook reads the text of a tool's response, and the dual of  *)
(* the reading, which puts a shorter text back where it was read.  A text is *)
(* a sequence of tokens.                                                     *)
EXTENDS Sequences, SequencesExt

(* A response is a text, a list of blocks or an object with some of the      *)
(* fields the tools use.  The code returns None for no text; here that is    *)
(* the empty text, which it never returns.                                   *)
NoText == <<>>
Text(t) == [type |-> "str", text |-> t]
Null == [type |-> "null"]
Object(fields) == [type |-> "dict", fields |-> fields]
Blocks(blocks) == [type |-> "list", blocks |-> blocks]

Has(fields, name) == name \in DOMAIN fields /\ fields[name].type = "str"
Blank(t) == ToSet(t) \subseteq {" "}
Scrub(t) == [i \in DOMAIN t |-> IF t[i] = "key" THEN "***" ELSE t[i]]

(* The first of the result and text fields that holds a text, if any.        *)
Named(fields) == SelectSeq(<<"result", "text">>, LAMBDA n : Has(fields, n))

RECURSIVE ExtractText(_)
ExtractText(response) ==
  CASE response.type = "str" -> response.text
    [] response.type = "list" ->
         IF \A b \in ToSet(response.blocks) : b.type = "str" THEN FlattenSeq([i \in DOMAIN response.blocks |-> response.blocks[i].text]) ELSE NoText
    [] response.type = "dict" ->
         LET f == response.fields
             inner == IF "content" \in DOMAIN f THEN ExtractText(f["content"]) ELSE NoText
         IN CASE inner # NoText -> inner
              [] inner = NoText /\ Has(f, "stdout") ->
                   IF f["stdout"].text # NoText THEN f["stdout"].text
                   ELSE IF Has(f, "stderr") /\ ~Blank(f["stderr"].text) THEN f["stderr"].text ELSE NoText
              [] inner = NoText /\ ~Has(f, "stdout") /\ Named(f) # <<>> -> f[Named(f)[1]].text
              [] OTHER -> NoText
    [] OTHER -> NoText

With(fields, name, value) == Object([fields EXCEPT ![name] = value])

StdoutReplaced_StderrKept(fields, t) == With(fields, "stdout", Text(t))
StdoutReplaced(fields, t) ==
  LET kept == IF Has(fields, "stderr") THEN [fields EXCEPT !["stderr"] = Text(Scrub(fields["stderr"].text))] ELSE fields
  IN With(kept, "stdout", Text(t))

RECURSIVE Reinject(_, _)
Reinject(response, t) ==
  IF ExtractText(response) = NoText THEN Null
  ELSE CASE response.type = "str" -> Text(t)
         [] response.type = "list" -> Blocks(<<Text(t)>>)
         [] OTHER ->
              LET f == response.fields
              IN IF "content" \in DOMAIN f /\ ExtractText(f["content"]) # NoText
                 THEN With(f, "content", Reinject(f["content"], t))
                 ELSE IF ~Has(f, "stdout") THEN With(f, Named(f)[1], Text(t))
                 ELSE IF f["stdout"].text # NoText THEN StdoutReplaced(f, t)
                 ELSE With(f, "stderr", Text(t))

(* A response that is not compressed is still replaced when redaction would  *)
(* change a field of it that the model sees.                                 *)
RedactionShows_Extracted(response, t) == Scrub(t) # t
RedactionShows(response, t) ==
  \/ Scrub(t) # t
  \/ /\ response.type = "dict"
     /\ Has(response.fields, "stdout") /\ response.fields["stdout"].text # NoText
     /\ Has(response.fields, "stderr") /\ Scrub(response.fields["stderr"].text) # response.fields["stderr"].text

Uncompressed(response) ==
  LET t == ExtractText(response)
  IN IF t # NoText /\ RedactionShows(response, t) THEN Reinject(response, Scrub(t)) ELSE response

(* What is put back is read back, in the same shape and with every other     *)
(* field as it was but a scrubbed stderr; what has no text is left alone; and*)
(* no output of a shell command shows what redaction takes out, compressed   *)
(* or not.                                                                   *)
Mirrors(response) ==
  LET t == ExtractText(response)  short == <<"short">>  out == Reinject(response, short)
      others(f) == {n \in DOMAIN f : n # "stderr" /\ f[n] # out.fields[n]}
      clean(r) == \A n \in DOMAIN r.fields \intersect {"stdout", "stderr"} : r.fields[n].type = "str" => "key" \notin ToSet(r.fields[n].text)
  IN /\ t = NoText => out = Null /\ Uncompressed(response) = response
     /\ t # NoText => ExtractText(out) = short /\ out.type = response.type
     /\ t # NoText /\ response.type = "dict" =>
          /\ DOMAIN out.fields = DOMAIN response.fields
          /\ \A n \in others(response.fields) : \A m \in others(response.fields) : n = m
          /\ "content" \notin DOMAIN response.fields /\ Has(response.fields, "stdout") => clean(out) /\ clean(Uncompressed(response))
=============================================================================

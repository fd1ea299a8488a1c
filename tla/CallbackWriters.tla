--------------------------- MODULE CallbackWriters ---------------------------
(***************************************************************************)
(* The callback writers of one call (socket_writer.hpp, socket_logger.hpp).*)
(* Stan hands a writer names, values, text or nothing, and the logger text *)
(* at a level; each sends a JSON document per message, keeps names to      *)
(* itself as the keys of later values, or throws.  The sample writer       *)
(* follows the messages that end the adaptation.                           *)
(*                                                                         *)
(* A document is reduced to its topic, the shape of its "values", the      *)
(* names that are keys, and the content.  "broken" is the shape of a       *)
(* document that a JSON parser refuses.                                    *)
(***************************************************************************)
EXTENDS Naturals, Sequences

VARIABLES
  fields,  \* sample_fields_ and diagnostic_fields_
  adapt,   \* processing_adaptation_state_ of the sample writer
  lines    \* what each writer has sent

writerVars == <<fields, adapt, lines>>

SocketWriters == {"init_writer", "sample_writer", "diagnostic_writer"}
CallbackWriters == SocketWriters \cup {"logger"}
Levels == {"debug", "info", "warn", "error", "fatal"}
AdaptationStates == {"before", "processing", "final", "after"}
Shapes == {"texts", "numbers", "mapping", "broken"}

\* What Stan hands over; `finite` is FALSE if a value is NaN or infinite.
ToWriter(w, kind, content, finite) ==
  [to |-> w, kind |-> kind, content |-> content, finite |-> finite]
Names(w, names) == ToWriter(w, "names", names, TRUE)
Values(w, content, finite) == ToWriter(w, "values", content, finite)
Text(w, content) == ToWriter(w, "text", content, TRUE)
Blank(w) == ToWriter(w, "blank", "", TRUE)
Log(level, content) == ToWriter("logger", level, content, TRUE)

Topic(w) == CASE w = "init_writer" -> "initialization"
              [] w = "sample_writer" -> "sample"
              [] w = "diagnostic_writer" -> "diagnostic"
              [] w = "logger" -> "logger"

Document(m, shape, keys, content) ==
  [topic |-> Topic(m.to), shape |-> shape, keys |-> keys, content |-> content]

\* Plausible slip: rapidjson writes nothing for a value that is not finite.
FiniteOnly(m) == m.finite
\* kWriteNanAndInfFlag
WritesNumber(m) == TRUE

WritersInit ==
  /\ fields = [w \in SocketWriters |-> <<>>]
  /\ adapt = "before"
  /\ lines = [w \in CallbackWriters |-> <<>>]
-----------------------------------------------------------------------------
\* operator()(names): kept by the first call; the diagnostic writer sends
\* later ones, in an object it does not end.
TakesNames(m) ==
  IF fields[m.to] = <<>> /\ m.to # "init_writer"
  THEN fields' = [fields EXCEPT ![m.to] = m.content] /\ lines' = lines
  ELSE /\ m.to = "diagnostic_writer"
       /\ lines' = [lines EXCEPT
                      ![m.to] = Append(@, Document(m, "broken", <<>>, m.content))]
       /\ fields' = fields

DrawsTakenIn == {"before", "after"}

\* operator()(values): a mapping from the names, or a list of initial values.
TakesValues(m) ==
  /\ m.to # "init_writer" => fields[m.to] # <<>>
  /\ m.to = "sample_writer" => adapt \in DrawsTakenIn
  /\ LET shape == IF ~WritesNumber(m) THEN "broken"
                  ELSE IF m.to = "init_writer" THEN "numbers" ELSE "mapping"
     IN lines' = [lines EXCEPT
                    ![m.to] = Append(@, Document(m, shape, fields[m.to], m.content))]
  /\ fields' = fields

\* Plausible slip: the line after the heading is not waited for.
AdaptWithoutElements(text) ==
  CASE adapt = "before" /\ text = "Adaptation terminated" -> "processing"
    [] adapt = "processing" /\ text = "Diagonal elements" -> "final"
    [] OTHER -> adapt
\* The adaptation states after a text.
AdaptAfter(text) ==
  CASE adapt = "before" /\ text = "Adaptation terminated" -> "processing"
    [] adapt = "processing" /\ text = "Diagonal elements" -> "final"
    [] adapt = "final" -> "after"
    [] OTHER -> adapt

\* operator()(text)
TakesText(m) ==
  /\ m.to # "init_writer"
  /\ lines' = [lines EXCEPT
                 ![m.to] = Append(@, Document(m, "texts", <<>>, m.content))]
  /\ fields' = fields

\* The logger prefixes the level.
TakesLog(m) ==
  /\ lines' = [lines EXCEPT !["logger"] =
       Append(@, Document(m, "texts", <<>>, <<m.kind, m.content>>))]
  /\ fields' = fields

\* What a writer does with a message it takes, and whether it throws instead.
Takes(m) ==
  /\ CASE m.kind = "names" -> TakesNames(m)
       [] m.kind = "values" -> TakesValues(m)
       [] m.kind = "text" -> TakesText(m)
       [] m.kind = "blank" -> UNCHANGED <<fields, lines>>
       [] m.kind \in Levels -> TakesLog(m)
  /\ adapt' = IF m.kind = "text" /\ m.to = "sample_writer"
              THEN AdaptAfter(m.content) ELSE adapt

Throws(m) ==
  \/ m.kind = "names" /\ m.to = "sample_writer" /\ fields[m.to] # <<>>
  \/ m.kind \in {"names", "text"} /\ m.to = "init_writer"
  \/ /\ m.kind = "values" /\ m.to # "init_writer"
     /\ \/ fields[m.to] = <<>>
        \/ m.to = "sample_writer" /\ adapt \notin DrawsTakenIn
=============================================================================

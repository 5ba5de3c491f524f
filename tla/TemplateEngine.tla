--------------------------- MODULE TemplateEngine ---------------------------
(***************************************************************************)
(* The notification templates of src/src/template/json_template.rs:        *)
(* ChannelTemplate::render turns a TemplateContext into the pieces of a    *)
(* message (a card's header and elements, its markdown, its text). Each    *)
(* piece is a string scanned in three passes: expand_each, eval_if and     *)
(* simple_sub, the first two of which keep a `rest` still to be read and a *)
(* `result` already written.                                               *)
(*                                                                         *)
(* A string is a sequence of tokens: directives, placeholders, and ordinary*)
(* text. Spaces are left out.                                              *)
(***************************************************************************)
EXTENDS Naturals, Sequences, SequencesExt

CONSTANTS
  Tokens,   \* what texts are made of
  Messages  \* the messages to render: a context and what to render with it

VARIABLES
  message,  \* the message being rendered
  jobs,     \* pieces still to be rendered
  phase,    \* "next", "each", "if", the variable simple_sub is at, or "done"
  rest,     \* what the current pass has not read yet
  result,   \* what it has written
  stack,    \* the callers of eval_if, which calls itself
  out       \* finished pieces

vars == <<message, jobs, phase, rest, result, stack, out>>

Each == "{{#each fields}}"
EndEach == "{{/each}}"
EndIf == "{{/if}}"
IfPrefix == "{{#if "      \* an opener that was never closed by }}
IfField == [body |-> "{{#if body}}", url |-> "{{#if url}}", fields |-> "{{#if fields}}",
            title |-> "{{#if title}}", other |-> "{{#if other}}"]
Fields == DOMAIN IfField
IfOpeners == {IfField[f] : f \in Fields}
Openers == IfOpeners \cup {IfPrefix}
Placeholder == [title |-> "{{title}}", body |-> "{{body}}", status_emoji |-> "{{status_emoji}}",
                status_color |-> "{{status_color}}", timestamp |-> "{{timestamp}}", url |-> "{{url}}",
                key |-> "{{key}}", value |-> "{{value}}"]
\* Everything that ends in }}.
Braced == {Each, EndEach, EndIf} \cup IfOpeners \cup {Placeholder[p] : p \in DOMAIN Placeholder}

Texts == Seq(Tokens)
\* MessageStatus; a context may come without one, and then counts as info.
Emoji == [success |-> "check", failed |-> "cross", warning |-> "sign", info |-> "i"]
Color == [success |-> "green", failed |-> "red", warning |-> "orange", info |-> "blue"]
Timestamp == "now"
Statuses == DOMAIN Emoji
Contexts == [title : Texts, body : Texts, status : Seq(Statuses), url : Seq(Texts),
             fields : Seq([key : Texts, value : Texts])]
Slots == {"header", "div", "grid", "hr", "button", "note", "text", "markdown"}
Conditions == Fields \cup {"none"}

ctx == message.ctx

\* is_truthy. A url that is present counts, even when it is empty; a name that is
\* none of the four does not.
IsTruthy(field) ==
  \/ field = "body" /\ ctx.body # <<>>
  \/ field = "url" /\ ctx.url # <<>>
  \/ field = "fields" /\ ctx.fields # <<>>
  \/ field = "title" /\ ctx.title # <<>>

\* str::find in what is left from a position on.
First(i, from, tokens) ==
  i >= from /\ rest[i] \in tokens /\ \A h \in from..(i - 1) : rest[h] \notin tokens
None(from, tokens) == \A h \in from..Len(rest) : rest[h] \notin tokens
Upto(i) == SubSeq(rest, 1, i)
Between(i, j) == SubSeq(rest, i + 1, j - 1)
After(i) == SubSeq(rest, i + 1, Len(rest))

\* str::replace: once over the text, what was put in is not read again.
Replace(s, token, with) ==
  FlattenSeq([i \in DOMAIN s |-> IF s[i] = token THEN with ELSE <<s[i]>>])

Status == IF ctx.status = <<>> THEN "info" ELSE ctx.status[1]
Substitute(var) ==
  CASE var \in {"title", "body"} -> ctx[var]
    [] var = "status_emoji" -> <<Emoji[Status]>>
    [] var = "status_color" -> <<Color[Status]>>
    [] var = "timestamp" -> <<Timestamp>>
    [] var = "url" -> FlattenSeq(ctx.url)

\* ChannelTemplate::render. Text and markdown that a template does not give are
\* made from templates of the code's own.
TextFallback == <<"{{status_emoji}}", "{{title}}", "nl", "{{body}}">>
MarkdownFallback ==
  <<"**", "{{status_emoji}}", "{{title}}", "**", "{{body}}">>
  \o (<<Each>> \o <<"-", "{{key}}", ":", "{{value}}">> \o <<EndEach>>)
  \o (<<IfField.url>> \o <<"link", "{{url}}">> \o <<EndIf>>)
  \o <<"footer", "{{timestamp}}">>

Piece(slot, text) == [slot |-> slot, cond |-> "none", text |-> text]

Pieces(m) ==
  CASE m.format = "card" -> m.pieces \o
         <<Piece("text", TextFallback), Piece("markdown", MarkdownFallback)>>
    [] m.format = "markdown" -> <<Piece("text", TextFallback)>> \o m.pieces
    [] OTHER -> m.pieces

\* The directives, the words of the code's own templates, and what messages hold. The
\* url and the status may be missing.
ASSUME TokensConstant ==
  /\ Braced \cup Openers \cup {"nl", "**", "-", ":", "link", "footer", "label"} \subseteq Tokens
  /\ {Emoji[s] : s \in Statuses} \cup {Color[s] : s \in Statuses} \cup {Timestamp} \subseteq Tokens
ASSUME MessagesConstant ==
  \A m \in Messages :
    /\ m.ctx \in Contexts /\ Len(m.ctx.url) <= 1 /\ Len(m.ctx.status) <= 1
    /\ m.pieces \in Seq([slot : Slots, cond : Conditions, text : Texts])

Init ==
  /\ message \in Messages
  /\ jobs = Pieces(message)
  /\ phase = "next"
  /\ rest = <<>>
  /\ result = <<>>
  /\ stack = <<>>
  /\ out = <<>>

-----------------------------------------------------------------------------
\* CardTemplate::render_feishu skips an element whose condition does not hold, and
\* a button without url.
\* Mutant: conditions are for text only.
Skipped_ButtonOnly(job) == job.slot = "button" /\ ctx.url = <<>>

Skipped(job) ==
  \/ job.cond # "none" /\ ~IsTruthy(job.cond)
  \/ job.slot = "button" /\ ctx.url = <<>>

Skip ==
  /\ phase = "next"
  /\ jobs # <<>>
  /\ Skipped(Head(jobs))
  /\ jobs' = Tail(jobs)
  /\ UNCHANGED <<message, phase, rest, result, stack, out>>

\* A rule, and the grid of the fields as they are.
Grid == FlattenSeq([i \in DOMAIN ctx.fields |-> ctx.fields[i].key \o ctx.fields[i].value])

Emit(slot, text) == out' = Append(out, [slot |-> slot, text |-> text])

Fixed ==
  /\ phase = "next"
  /\ jobs # <<>>
  /\ ~Skipped(Head(jobs))
  /\ Head(jobs).slot \in {"hr", "grid"}
  /\ Emit(Head(jobs).slot, IF Head(jobs).slot = "grid" THEN Grid ELSE <<>>)
  /\ jobs' = Tail(jobs)
  /\ UNCHANGED <<message, phase, rest, result, stack>>

\* Headers, footers and button labels take placeholders only.
Start ==
  /\ phase = "next"
  /\ jobs # <<>>
  /\ ~Skipped(Head(jobs))
  /\ Head(jobs).slot \notin {"hr", "grid"}
  /\ phase' = IF Head(jobs).slot \in {"header", "note", "button"} THEN "title" ELSE "each"
  /\ rest' = Head(jobs).text
  /\ UNCHANGED <<message, jobs, result, stack, out>>

Finish ==
  /\ phase = "next"
  /\ jobs = <<>>
  /\ phase' = "done"
  /\ UNCHANGED <<message, jobs, rest, result, stack, out>>

-----------------------------------------------------------------------------
\* expand_each: the block up to the first closer, once per field. A value that
\* holds {{value}} is substituted when it is a key, not when it is a value.
Expanded(inner) ==
  FlattenSeq([i \in DOMAIN ctx.fields |->
    Replace(Replace(inner, Placeholder.key, ctx.fields[i].key),
            Placeholder.value, ctx.fields[i].value)])

ExpandEach ==
  /\ phase = "each"
  /\ \E i, j \in DOMAIN rest :
       /\ First(i, 1, {Each})
       /\ First(j, i + 1, {EndEach})
       /\ result' = result \o Upto(i - 1) \o Expanded(Between(i, j))
       /\ rest' = After(j)
  /\ UNCHANGED <<message, jobs, phase, stack, out>>

EachUnclosed ==
  /\ phase = "each"
  /\ \E i \in DOMAIN rest :
       /\ First(i, 1, {Each})
       /\ None(i + 1, {EndEach})
       /\ result' = result \o Upto(i)
       /\ rest' = After(i)
  /\ UNCHANGED <<message, jobs, phase, stack, out>>

EachEnd ==
  /\ phase = "each"
  /\ None(1, {Each})
  /\ rest' = result \o rest
  /\ result' = <<>>
  /\ phase' = "if"
  /\ UNCHANGED <<message, jobs, stack, out>>

-----------------------------------------------------------------------------
\* eval_if. An opener at i reaches to the next }}, at e: its own, or that of what
\* follows a bare prefix, which makes it a field nobody knows.
Opener(i, e) ==
  /\ First(i, 1, Openers)
  /\ IF rest[i] = IfPrefix THEN First(e, i + 1, Braced) ELSE e = i

Holds(opener) == \E f \in Fields : IfField[f] = opener /\ IsTruthy(f)

\* Mutant: a block reaches to the last closer (rfind).
IfEnter_LastCloser ==
  /\ phase = "if"
  /\ \E i, e, c \in DOMAIN rest :
       /\ Opener(i, e)
       /\ c > e /\ rest[c] = EndIf /\ None(c + 1, {EndIf})
       /\ Holds(rest[i])
       /\ stack' = Append(stack, [result |-> result \o Upto(i - 1), rest |-> After(c)])
       /\ rest' = Between(e, c)
       /\ result' = <<>>
  /\ UNCHANGED <<message, jobs, phase, out>>

\* The body of a block that holds is evaluated by a call of its own.
IfEnter ==
  /\ phase = "if"
  /\ \E i, e, c \in DOMAIN rest :
       /\ Opener(i, e)
       /\ First(c, e + 1, {EndIf})
       /\ Holds(rest[i])
       /\ stack' = Append(stack, [result |-> result \o Upto(i - 1), rest |-> After(c)])
       /\ rest' = Between(e, c)
       /\ result' = <<>>
  /\ UNCHANGED <<message, jobs, phase, out>>

IfSkip ==
  /\ phase = "if"
  /\ \E i, e, c \in DOMAIN rest :
       /\ Opener(i, e)
       /\ First(c, e + 1, {EndIf})
       /\ ~Holds(rest[i])
       /\ result' = result \o Upto(i - 1)
       /\ rest' = After(c)
  /\ UNCHANGED <<message, jobs, phase, stack, out>>

\* Mutant: an opener that is not closed is swallowed.
IfUnclosed_Swallowed ==
  /\ phase = "if"
  /\ \E i, e \in DOMAIN rest :
       /\ \/ Opener(i, e) /\ None(e + 1, {EndIf})
          \/ i = e /\ First(i, 1, Openers) /\ rest[i] = IfPrefix /\ None(i + 1, Braced)
       /\ result' = result \o Upto(i - 1)
       /\ rest' = After(e)
  /\ UNCHANGED <<message, jobs, phase, stack, out>>

\* No closer behind the opener, or a bare prefix without }}: written as it was.
IfUnclosed ==
  /\ phase = "if"
  /\ \E i, e \in DOMAIN rest :
       /\ \/ Opener(i, e) /\ None(e + 1, {EndIf})
          \/ i = e /\ First(i, 1, Openers) /\ rest[i] = IfPrefix /\ None(i + 1, Braced)
       /\ result' = result \o Upto(e)
       /\ rest' = After(e)
  /\ UNCHANGED <<message, jobs, phase, stack, out>>

IfReturn ==
  /\ phase = "if"
  /\ None(1, Openers)
  /\ stack # <<>>
  /\ result' = Last(stack).result \o result \o rest
  /\ rest' = Last(stack).rest
  /\ stack' = Front(stack)
  /\ UNCHANGED <<message, jobs, phase, out>>

IfEnd ==
  /\ phase = "if"
  /\ None(1, Openers)
  /\ stack = <<>>
  /\ rest' = result \o rest
  /\ result' = <<>>
  /\ phase' = "title"
  /\ UNCHANGED <<message, jobs, stack, out>>

-----------------------------------------------------------------------------
\* simple_sub: one replace per variable, in this order, each over what the last
\* one left, so that a title may still be given the body.
\* Mutant: the pass starts over for as long as it finds something.
Sub_UntilNoneIsLeft(var, next) ==
  /\ phase = var
  /\ rest' = Replace(rest, Placeholder[var], Substitute(var))
  /\ phase' = IF {Placeholder.title, Placeholder.body} \cap Range(rest') # {} THEN "title" ELSE next
  /\ UNCHANGED <<message, jobs, result, stack, out>>

Sub(var, next) ==
  /\ phase = var
  /\ rest' = Replace(rest, Placeholder[var], Substitute(var))
  /\ phase' = next
  /\ UNCHANGED <<message, jobs, result, stack, out>>

SubLast ==
  /\ phase = "url"
  /\ Emit(Head(jobs).slot, Replace(rest, Placeholder.url, Substitute("url")))
  /\ jobs' = Tail(jobs)
  /\ phase' = "next"
  /\ rest' = <<>>
  /\ UNCHANGED <<message, result, stack>>

Next ==
  \/ Skip \/ Fixed \/ Start \/ Finish
  \/ ExpandEach \/ EachUnclosed \/ EachEnd
  \/ IfEnter \/ IfSkip \/ IfUnclosed \/ IfReturn \/ IfEnd
  \/ Sub("title", "body") \/ Sub("body", "status_emoji") \/ Sub("status_emoji", "status_color")
  \/ Sub("status_color", "timestamp") \/ Sub("timestamp", "url") \/ SubLast

Spec == Init /\ [][Next]_vars

\* Rendering is one synchronous call.
FairSpec == Spec /\ WF_vars(Next)
=============================================================================

------------------------------ MODULE Templates ------------------------------
(***************************************************************************)
(* What a template means, and that TemplateEngine renders it so. A template*)
(* is a tree here: a sequence of nodes, each a text, a block for each field*)
(* or a block under a condition, of parts that are again text or blocks, of*)
(* words; and behind the last block whatever directives were left over.    *)
(* Its text is what an app writes into notify-template.jsonc; its meaning  *)
(* is read off the tree, without any scanning.                             *)
(***************************************************************************)
EXTENDS TemplateEngine

Kinds == {"text", "each", "if"}
Parts == [kind : Kinds, field : Fields, words : Texts]
Nodes == [kind : Kinds, field : Fields, parts : Seq(Parts)]
Trees == [slot : Slots, cond : Conditions, tree : Seq(Nodes), tail : Texts]

Wrap(kind, field, text) ==
  CASE kind = "text" -> text
    [] kind = "each" -> <<Each>> \o text \o <<EndEach>>
    [] kind = "if" -> <<IfField[field]>> \o text \o <<EndIf>>

PartText(p) == Wrap(p.kind, p.field, p.words)
NodeText(n) == Wrap(n.kind, n.field, FlattenSeq([i \in DOMAIN n.parts |-> PartText(n.parts[i])]))
TextOf(t) == FlattenSeq([i \in DOMAIN t.tree |-> NodeText(t.tree[i])]) \o t.tail

\* A message is given by the trees of its pieces.
ASSUME TreesConstant ==
  \A m \in Messages :
    /\ m.trees \in Seq(Trees)
    /\ m.pieces = [i \in DOMAIN m.trees |->
         [slot |-> m.trees[i].slot, cond |-> m.trees[i].cond, text |-> TextOf(m.trees[i])]]

\* The value of a placeholder, in a block that belongs to the field `of`, if any.
ValueOf(token, of) ==
  CASE token = Placeholder.title -> ctx.title
    [] token = Placeholder.body -> ctx.body
    [] token = Placeholder.status_emoji -> <<Emoji[Status]>>
    [] token = Placeholder.status_color -> <<Color[Status]>>
    [] token = Placeholder.timestamp -> <<Timestamp>>
    [] token = Placeholder.url -> FlattenSeq(ctx.url)
    [] token = Placeholder.key /\ of # <<>> -> of[1].key
    [] token = Placeholder.value /\ of # <<>> -> of[1].value
    [] OTHER -> <<token>>

Values(words, of) == FlattenSeq([i \in DOMAIN words |-> ValueOf(words[i], of)])

\* json_template.rs:17-24, the block directives: "Render block only when field is
\* non-empty".
Present(field) ==
  CASE field \in {"title", "body"} -> ctx[field] # <<>>
    [] field = "url" -> ctx.url \notin {<<>>, <<<<>>>>}
    [] field = "fields" -> Len(ctx.fields) > 0
    [] OTHER -> FALSE

PartMeaning(p, of) ==
  CASE p.kind = "text" -> Values(p.words, of)
    [] p.kind = "each" -> FlattenSeq([f \in DOMAIN ctx.fields |-> Values(p.words, <<ctx.fields[f]>>)])
    [] p.kind = "if" -> IF Present(p.field) THEN Values(p.words, of) ELSE <<>>

PartsMeaning(parts, of) == FlattenSeq([i \in DOMAIN parts |-> PartMeaning(parts[i], of)])

NodeMeaning(n) ==
  CASE n.kind = "text" -> PartsMeaning(n.parts, <<>>)
    [] n.kind = "each" -> FlattenSeq([f \in DOMAIN ctx.fields |-> PartsMeaning(n.parts, <<ctx.fields[f]>>)])
    [] n.kind = "if" -> IF Present(n.field) THEN PartsMeaning(n.parts, <<>>) ELSE <<>>

Meaning(t) == FlattenSeq([i \in DOMAIN t.tree |-> NodeMeaning(t.tree[i])]) \o Values(t.tail, <<>>)

\* Blocks of one kind are not nested in each other, words are no directives, and
\* what is left over behind the blocks opens nothing that is closed there.
Directives == {Each, EndEach, EndIf} \cup Openers
Free(s, tokens) == Range(s) \cap tokens = {}
Stray(tail) ==
  \A i, j \in DOMAIN tail :
    i < j => /\ ~(tail[i] = Each /\ tail[j] = EndEach)
             /\ ~(tail[i] \in Openers /\ tail[j] = EndIf)
Proper(t) ==
  /\ \A i \in DOMAIN t.tree : \A j \in DOMAIN t.tree[i].parts :
       /\ t.tree[i].kind = "text" \/ t.tree[i].parts[j].kind # t.tree[i].kind
       /\ Free(t.tree[i].parts[j].words, Directives)
  /\ Stray(t.tail)

Text(words) == <<[kind |-> "text", field |-> "other", words |-> words]>>
Words(words) == [kind |-> "text", field |-> "other", parts |-> Text(words)]
EachOf(words) == [kind |-> "each", field |-> "other", parts |-> Text(words)]
IfOf(field, words) == [kind |-> "if", field |-> field, parts |-> Text(words)]
Element(slot, cond, tree) == [slot |-> slot, cond |-> cond, tree |-> tree, tail |-> <<>>]

TextTree == Element("text", "none", <<Words(<<"{{status_emoji}}", "{{title}}", "nl", "{{body}}">>)>>)
MarkdownTree ==
  Element("markdown", "none",
    <<Words(<<"**", "{{status_emoji}}", "{{title}}", "**", "{{body}}">>), EachOf(<<"-", "{{key}}", ":", "{{value}}">>),
      IfOf("url", <<"link", "{{url}}">>), Words(<<"footer", "{{timestamp}}">>)>>)

\* The trees of a message, those of the code's own templates included.
Items ==
  CASE message.format = "card" -> message.trees \o <<TextTree, MarkdownTree>>
    [] message.format = "markdown" -> <<TextTree>> \o message.trees
    [] OTHER -> message.trees

\* The pieces that are shown, and how each reads: headers, footers and labels take
\* placeholders only, the grid shows what a block for each field would.
Shows(t) == (t.cond = "none" \/ Present(t.cond)) /\ (t.slot = "button" => Present("url"))
Reads(t) ==
  [slot |-> t.slot,
   text |-> CASE t.slot = "hr" -> <<>>
              [] t.slot = "grid" -> NodeMeaning(EachOf(<<"{{key}}", "{{value}}">>))
              [] t.slot \in {"header", "note", "button"} -> Values(TextOf(t), <<>>)
              [] OTHER -> Meaning(t)]

Expected == FlattenSeq([i \in DOMAIN Items |-> IF Shows(Items[i]) THEN <<Reads(Items[i])>> ELSE <<>>])

\* render_feishu_card, render_markdown and render_text of src/src/template/builtin.rs,
\* made by hand, and the card that json_template.rs gives as its example. The card's
\* colour and the address of its button, and all line breaks but those of the text, are
\* left out. Without a status the card has the emoji of info and the other two have none.
Given(condition, pieces) == IF condition THEN pieces ELSE <<>>
At(slot, text) == [slot |-> slot, text |-> text]
StatusEmoji == Given(ctx.status # <<>>, <<Emoji[Status]>>)

BuiltinCard ==
  <<At("header", <<Emoji[Status]>> \o ctx.title)>>
  \o Given(ctx.body # <<>>, <<At("div", ctx.body)>>)
  \o Given(ctx.fields # <<>>, <<At("grid", Grid)>>)
  \o Given(ctx.url # <<>>, <<At("hr", <<>>), At("button", <<"label">>)>>)
  \o <<At("hr", <<>>), At("note", <<"footer", Timestamp>>)>>

FieldLines(prefix, end) ==
  FlattenSeq([i \in DOMAIN ctx.fields |->
    prefix \o ctx.fields[i].key \o <<":">> \o ctx.fields[i].value \o end])

BuiltinMarkdown ==
  <<"**">> \o StatusEmoji \o ctx.title \o <<"**">> \o ctx.body
  \o FieldLines(<<"-">>, <<>>)
  \o Given(ctx.url # <<>>, <<"link">> \o FlattenSeq(ctx.url)) \o <<"footer", Timestamp>>

\* Each line with the break that the code puts before the next.
BuiltinText ==
  StatusEmoji \o ctx.title \o <<"nl">>
  \o Given(ctx.body # <<>>, ctx.body \o <<"nl">>)
  \o FieldLines(<<>>, <<"nl">>)
  \o Given(ctx.url # <<>>, FlattenSeq(ctx.url) \o <<"nl">>) \o <<"footer", Timestamp>>

ExampleCard ==
  <<Element("header", "none", <<Words(<<"{{status_emoji}}", "{{title}}">>)>>),
    Element("div", "body", <<Words(<<"{{body}}">>)>>),
    Element("grid", "fields", <<>>),
    Element("hr", "url", <<>>),
    Element("button", "url", <<Words(<<"label">>)>>),
    Element("hr", "none", <<>>),
    Element("note", "none", <<Words(<<"footer", "{{timestamp}}">>)>>)>>

\* Values that the passes leave alone. Fields are put in before the conditions are
\* looked at and must be plain; title, body and url come afterwards, in this order,
\* and may hold anything but the placeholders still to come. A url that is there but
\* empty is none of them: is_truthy shows the block that the documentation says is
\* left out.
StatusPlaceholders == {"{{status_emoji}}", "{{status_color}}", "{{timestamp}}"}
Quiet ==
  /\ ctx.url # <<<<>>>>
  /\ Free(ctx.title, {"{{body}}", "{{url}}"} \cup StatusPlaceholders)
  /\ Free(ctx.body, {"{{url}}"} \cup StatusPlaceholders)
  /\ \A i \in DOMAIN ctx.fields :
       Free(ctx.fields[i].key, Braced \cup Directives) /\ Free(ctx.fields[i].value, Braced \cup Directives)

(* ---- properties ---- *)

\* Text and positions, and how deep eval_if goes: the body of a block ends at the
\* first closer, so the call for it finds no block and never calls again.
TypeOK ==
  /\ phase \in {"next", "each", "if", "title", "body", "status_emoji", "status_color",
                "timestamp", "url", "done"}
  /\ rest \in Texts /\ result \in Texts
  /\ phase \in {"next", "done"} => rest = <<>> /\ result = <<>>
  /\ Len(stack) <= 1
  /\ stack # <<>> => phase = "if" /\ None(1, {EndIf})
  /\ Len(out) + Len(jobs) <= Len(Pieces(message))

\* A message of proper templates comes out as it was meant, piece for piece: blocks
\* once per field, conditions, stray and unclosed directives left as they are, no
\* directive read out of a title, a body or a url.
RendersMeaning ==
  (phase = "done" /\ Quiet /\ \A i \in DOMAIN message.trees : Proper(message.trees[i]))
    => out = Expected

\* The two ways of rendering show the same things. The example card is the one that
\* the built-in renderer makes of the same message; where the message has a status the
\* markdown made beside it is the built-in one too, and the text is the built-in text
\* as far as it goes, up to the fields.
BuiltinAgrees ==
  (phase = "done" /\ Quiet /\ message.format = "card" /\ message.trees = ExampleCard)
    => /\ Front(Front(out)) = BuiltinCard
       /\ ctx.status # <<>> =>
            /\ Last(out) = At("markdown", BuiltinMarkdown)
            /\ IsPrefix(Last(Front(out)).text, BuiltinText)

\* Rendering ends, for any template and any values, those that name each other
\* included.
Renders == <>(phase = "done")
=============================================================================

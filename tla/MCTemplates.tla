----------------------------- MODULE MCTemplates -----------------------------
(* Templates of up to two nodes and a stray end, cards of up to two elements,   *)
(* against contexts with and without each part, and with values that hold      *)
(* placeholders and directives.                                                *)
EXTENDS Templates

MCTokens == STRING

P(title, body, status, url, fields) ==
  [title |-> title, body |-> body, status |-> status, url |-> url, fields |-> fields]
KV(key, value) == [key |-> <<key>>, value |-> <<value>>]

MCContexts == {
  P(<<"T">>, <<>>, <<>>, <<>>, <<>>),
  P(<<"T">>, <<>>, <<"success">>, <<>>, <<>>),
  P(<<"T">>, <<"B", EndIf>>, <<"failed">>, <<<<"U">>>>, <<KV("k", "v"), KV("l", "w")>>),
  P(<<>>, <<"B", EndIf>>, <<"warning">>, <<<<>>>>, <<KV("k", "v")>>),
  P(<<IfField.body, Each>>, <<"{{title}}", EndEach>>, <<>>, <<<<"{{title}}", "{{status_emoji}}">>>>, <<>>),
  P(<<"{{status_color}}">>, <<"{{body}}">>, <<"info">>, <<>>, <<KV("k", "v")>>),
  P(<<"{{body}}">>, <<"{{title}}", "{{url}}">>, <<>>, <<<<"{{body}}">>>>,
    <<KV("{{value}}", "{{key}}"), KV(EndIf, IfField.url)>>)}

Part(kind, field, words) == [kind |-> kind, field |-> field, words |-> words]
Block(kind, field, parts) == [kind |-> kind, field |-> field, parts |-> parts]
A == Part("text", "other", <<"a">>)
B == Part("text", "other", <<"{{body}}", "{{status_color}}">>)
Row == Part("each", "other", <<"{{key}}", "{{value}}">>)
Leaves == {Words(<<"a">>), Words(<<"{{body}}">>)}
Rows == {Block("each", "other", <<Part("text", "other", <<"{{key}}", "{{value}}">>)>>),
         Block("each", "other", <<Part("text", "other", <<"{{key}}">>), Part("if", "url", <<"{{value}}">>),
                                  Part("text", "other", <<"{{title}}">>)>>)}
Under == {Block("if", f, parts) : f \in {"url", "fields", "other"}, parts \in BoundedSeq({A, B, Row}, 2)}
MCNodes == Leaves \cup Rows \cup Under

\* What is left over at the end; the last two nest conditions, one through a block
\* for each field.
Tails == {<<>>, <<EndIf>>, <<Each>>, <<IfField.title>>, <<EndEach>>,
          <<IfPrefix, "a", "{{title}}", IfPrefix>>,
          <<IfField.body, "a", IfField.url, "b", EndIf, "c", EndIf>>,
          <<IfField.title, Each, IfField.body, "{{key}}", EndIf, EndEach, EndIf>>}

Tree(slot, cond, nodes, tail) == [slot |-> slot, cond |-> cond, tree |-> nodes, tail |-> tail]
Bodies == {<<n>> : n \in MCNodes} \cup {<<m, n>> : m \in MCNodes, n \in Leaves \cup Rows}

Elements ==
  {Tree(s, c, <<Words(<<"{{title}}", "{{url}}">>)>>, <<>>) :
      s \in {"grid", "button", "hr"}, c \in {"none", "url", "fields"}} \cup
  {Tree("div", "body", <<n>>, <<>>) : n \in Rows} \cup
  {Tree("note", "none", <<Words(<<"{{title}}", "{{timestamp}}", "{{url}}">>)>>, <<>>)}
Header == Tree("header", "none", <<Words(<<"{{title}}">>)>>, <<IfField.url>>)

MessageOf(context, format, trees) ==
  [ctx |-> context, format |-> format, trees |-> trees,
   pieces |-> [i \in DOMAIN trees |->
                [slot |-> trees[i].slot, cond |-> trees[i].cond, text |-> TextOf(trees[i])]]]

MCMessages ==
  {MessageOf(c, "markdown", <<Tree("markdown", "none", <<n>>, s)>>) : c \in MCContexts, n \in MCNodes, s \in Tails} \cup
  {MessageOf(c, "markdown", <<Tree("markdown", "none", t, <<>>)>>) : c \in MCContexts, t \in Bodies} \cup
  {MessageOf(c, "text", <<Tree("text", "none", <<n>>, <<>>)>>) : c \in MCContexts, n \in MCNodes} \cup
  {MessageOf(c, "card", <<Header>> \o e) : c \in MCContexts, e \in BoundedSeq(Elements, 2)} \cup
  {MessageOf(c, "card", ExampleCard) : c \in MCContexts}
=============================================================================

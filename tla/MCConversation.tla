--------------------------- MODULE MCConversation ---------------------------
EXTENDS Conversation

\* How often a tool that the user asked for has put its call in the history.
Skills == Cardinality({i \in DOMAIN history : history[i] = Item("call", 0)})

\* Behaviours are followed up to the first step that overtakes a later query.
\* A message with an editor's context, a compression and the activation of a
\* skill (once) are tried in behaviours of their own, without retries, the
\* first two without a cancellation, which they have nothing to do with in
\* the code, and the last without a loop.
Followed ==
  /\ ~overtaken
  /\ Contexts > 0 \/ chat > 0 \/ Skills > 0 => \A q \in Queries : query[q].attempt = 1
  /\ Contexts > 0 => chat = 0
  /\ Contexts > 0 \/ chat > 0 => ~cancelled /\ Skills = 0
  /\ Skills > 0 => Skills = 1 /\ \A q \in Queries : ~query[q].looped
=============================================================================

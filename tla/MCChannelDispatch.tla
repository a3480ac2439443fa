------------------------- MODULE MCChannelDispatch -------------------------
EXTENDS ChannelDispatch, TLC
CONSTANTS m1, m2, m3, c1, c2
MCMessages == {m1, m2, m3}
MCConversations == {c1, c2}
\* Two chats and a command of one conversation; another one may be in the file of the store.
MCConversationOf == [m \in MCMessages |-> c1]
MCKindOf == (m1 :> "stream") @@ (m2 :> "wait") @@ (m3 :> "command")
=============================================================================

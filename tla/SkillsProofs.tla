---------------------------- MODULE SkillsProofs ----------------------------
(* Proofs about Skills, for every set of callers and loading threads and   *)
(* every number of operations.                                             *)
EXTENDS Skills, SequenceTheorems, TLAPS

Calls == [pc : Places, op : Tool \cup Request \cup Setting, text : Content \cup {None},
          base : Content \cup {None}, ticket : Nat, left : BOOLEAN]
Loads == [at : {"idle", "target", "files", "config", "fill"}, target : Nat,
          found : Content \cup {None}, on : BOOLEAN]

(* The parts of TypeOK that the steps of a call and of a load disturb.     *)
Held ==
  \A c \in Callers : call[c].pc # "idle" /\ call[c].op \in Tool /\ ~call[c].left => lock = c
OneLoads ==
  /\ active <=> \E w \in Loaders : loader[w].at # "idle"
  /\ \A v, w \in Loaders : loader[v].at # "idle" /\ loader[w].at # "idle" => v = w

LEMMA Constants ==
  /\ MaxOps \in Nat /\ None \notin Nat /\ None \notin Callers /\ Content \subseteq Nat
  /\ NoCall \in Calls /\ NoCall.pc = "idle" /\ ~NoCall.left /\ Fresh \in Loads /\ Fresh.at = "idle"
  BY BoundAssumption, NoneAssumption
     DEF Content, NoCall, Calls, Places, Tool, Request, Setting, Fresh, Loads

Types ==
  /\ file \in Content \cup {None} /\ history \in Seq(Record)
  /\ config \in State \cup {Torn} /\ settings \in State
  /\ lock \in Callers \cup {None} /\ turn \in Callers \cup {None}
  /\ call \in [Callers -> Calls] /\ started \in 0 .. MaxOps
  /\ cache \in Content \cup {None, Unset} /\ version \in Nat /\ filled \in 0 .. version
  /\ active \in BOOLEAN /\ event \in BOOLEAN
  /\ mixed \in BOOLEAN /\ wrong \in BOOLEAN /\ unrecorded \in BOOLEAN
  /\ silent \in BOOLEAN /\ misread \in BOOLEAN
  /\ loader \in [Loaders -> Loads]
  /\ Held /\ OneLoads

LEMMA TypeParts == (TypeOK <=> Types) /\ (TypeOK' <=> Types')
  BY DEF TypeOK, Types, Calls, Loads, Held, OneLoads

(* A call that ends gives back what it holds.                              *)
LEMMA ReturnFacts ==
  ASSUME TypeOK, NEW c \in Callers, Return(c)
  PROVE  /\ call' \in [Callers -> Calls] /\ Held'
         /\ lock' \in Callers \cup {None} /\ turn' \in Callers \cup {None}
         /\ call'[c] = NoCall /\ \A d \in Callers \ {c} : call'[d] = call[d]
         /\ turn' = IF turn = c THEN None ELSE turn
  BY Constants, TypeParts DEF Types, Return, Give, Held

LEMMA GotoFacts ==
  ASSUME TypeOK, NEW c \in Callers, NEW p \in Places, Goto(c, p), call[c].pc # "idle"
  PROVE  /\ call' \in [Callers -> Calls]
         /\ call'[c] = [call[c] EXCEPT !.pc = p]
         /\ \A d \in Callers \ {c} : call'[d] = call[d]
         /\ lock' = lock => Held'
  BY Constants, TypeParts DEF Types, Goto, Held, Calls

LEMMA AnnounceFacts ==
  ASSUME TypeOK, NEW c \in Callers, Announce(c), call[c].pc # "idle", ~call[c].left
  PROVE  /\ call' \in [Callers -> Calls]
         /\ call'[c].pc = "invalidate" /\ call'[c].op = call[c].op /\ call'[c].ticket = 0
         /\ ~call'[c].left
         /\ \A d \in Callers \ {c} : call'[d] = call[d]
         /\ lock' = lock => Held'
  BY Constants, TypeParts DEF Types, Announce, Held, Calls, NoCall, Places

(* A call that is cancelled in a thread gives back what it holds, too.     *)
LEMMA LeaveFacts ==
  ASSUME TypeOK, NEW c \in Callers, call' = [call EXCEPT ![c].left = TRUE], Give(c)
  PROVE  /\ call' \in [Callers -> Calls] /\ Held'
         /\ lock' \in Callers \cup {None} /\ turn' \in Callers \cup {None}
         /\ call'[c] = [call[c] EXCEPT !.left = TRUE]
         /\ \A d \in Callers \ {c} : call'[d] = call[d]
         /\ turn' = IF turn = c THEN None ELSE turn
  BY Constants, TypeParts DEF Types, Give, Held, Calls

LEMMA BeginFacts ==
  ASSUME TypeOK, NEW c \in Callers, NEW o \in Tool \cup Request, NEW p \in Places,
         NEW text \in Content \cup {None}, NEW base \in Content \cup {None},
         Begin(c, o, p, text, base)
  PROVE  /\ call' \in [Callers -> Calls] /\ started' \in 0 .. MaxOps
         /\ call'[c] = [pc |-> p, op |-> o, text |-> text, base |-> base, ticket |-> 0,
                    left |-> FALSE]
         /\ \A d \in Callers \ {c} : call'[d] = call[d]
         /\ call[c].pc = "idle" /\ turn = None
         /\ UNCHANGED <<cacheVars, configVars, silent, file, history, unrecorded, wrong>>
<1>1. DEFINE new == [pc |-> p, op |-> o, text |-> text, base |-> base, ticket |-> 0,
                    left |-> FALSE]
<1>2. call' = [call EXCEPT ![c] = new] /\ started' = started + 1 /\ started < MaxOps
  BY DEF Begin
<1>3. new \in Calls
  BY DEF Calls
<1>4. call \in [Callers -> Calls] /\ started \in 0 .. MaxOps
  BY TypeParts DEF Types
<1>. QED
  BY <1>2, <1>3, <1>4, Constants DEF Begin, Free, OpenLoop

LEMMA RollbackFacts ==
  ASSUME TypeOK, NEW c \in Callers, NEW text \in Content \cup {None},
         Begin(c, "rollback", "scan", text, None)
  PROVE  /\ call' \in [Callers -> Calls] /\ started' \in 0 .. MaxOps
         /\ call'[c].op = "rollback"
         /\ \A d \in Callers \ {c} : call'[d] = call[d]
         /\ UNCHANGED <<cacheVars, configVars, silent, file, history, unrecorded, wrong>>
<1>. DEFINE o == "rollback"
            p == "scan"
            base == None
<1>1. o \in Tool \cup Request /\ p \in Places /\ base \in Content \cup {None}
  BY DEF Request, Places
<1>2. Begin(c, o, p, text, base)
  OBVIOUS
<1>3. o = "rollback"
  OBVIOUS
<1>. HIDE DEF o, p, base
<1>4. /\ call' \in [Callers -> Calls] /\ started' \in 0 .. MaxOps
      /\ call'[c] = [pc |-> p, op |-> o, text |-> text, base |-> base, ticket |-> 0,
                    left |-> FALSE]
      /\ \A d \in Callers \ {c} : call'[d] = call[d]
      /\ UNCHANGED <<cacheVars, configVars, silent, file, history, unrecorded, wrong>>
  BY <1>1, <1>2, BeginFacts, Zenon
<1>. QED
  BY <1>3, <1>4

LEMMA LoadFacts ==
  ASSUME TypeOK, Load
  PROVE  /\ active' = TRUE /\ loader' \in [Loaders -> Loads] /\ OneLoads'
         /\ \A w \in Loaders : loader'[w] = loader[w] \/ loader'[w] = [loader[w] EXCEPT !.at = "target"]
  <1>1. CASE active
    BY <1>1, TypeParts DEF Types, Load, OneLoads
  <1>2. CASE ~active
    <2>1. PICK w \in Loaders : w = CHOOSE v \in Loaders : loader[v].at = "idle"
      BY <1>2, TypeParts, LoadersAssumption DEF Types, OneLoads
    <2>2. loader' = [loader EXCEPT ![w] = [@ EXCEPT !.at = "target"]]
      BY <1>2, <2>1 DEF Load
    <2>. QED
      BY <1>2, <2>2, TypeParts DEF Types, OneLoads, Loads, Load
  <1>. QED
    BY <1>1, <1>2, TypeParts DEF Types

-----------------------------------------------------------------------------
(* Types.                                                                  *)

LEMMA TypeInit == Init => TypeOK
<1>. SUFFICES ASSUME Init PROVE TypeOK
  OBVIOUS
<1>1. call \in [Callers -> Calls] /\ Held /\ loader \in [Loaders -> Loads] /\ OneLoads
  BY Constants DEF Init, Held, OneLoads
<1>2. filled \in 0 .. version /\ started \in 0 .. MaxOps /\ history \in Seq(Record)
  BY Constants, EmptySeq DEF Init
<1>. QED
  BY <1>1, <1>2, TypeParts DEF Types, Init, State, Unset

LEMMA TypeInv ==
  ASSUME TypeOK, OpFits, ConfigTorn, [Next]_vars PROVE TypeOK'
<1>. SUFFICES Types'
  BY TypeParts
<1>0. Types
  BY TypeParts
<1>. USE Constants DEF Types
<1>a. ASSUME NEW r \in Record, history' = Append(history, r) PROVE history' \in Seq(Record)
  BY <1>0, <1>a, AppendProperties
<1>l. UNCHANGED <<loader, active>> => OneLoads'
  BY <1>0 DEF OneLoads
<1>h. UNCHANGED <<call, lock>> => Held'
  BY <1>0 DEF Held
<1>1. ASSUME NEW c \in Callers, NEW o \in Tool, BeginTool(c, o) PROVE Types'
  <2>0. started < MaxOps /\ started + 1 \in Content
    BY <1>0, <1>1 DEF BeginTool, Begin, Content
  <2>1. PICK p \in {"record", "scan"}, text \in Content \cup {None}, base \in Content \cup {None} :
          Begin(c, o, p, text, base)
    <3>1. CASE o = "erase"
      BY <1>0, <1>1, <3>1 DEF BeginTool
    <3>2. CASE o = "edit"
      BY <1>0, <1>1, <2>0, <3>2 DEF BeginTool
    <3>3. CASE o \notin {"erase", "edit"}
      BY <1>0, <1>1, <2>0, <3>3 DEF BeginTool
    <3>. QED
      BY <3>1, <3>2, <3>3
  <2>2. /\ call' \in [Callers -> Calls] /\ started' \in 0 .. MaxOps
        /\ call'[c] = [pc |-> p, op |-> o, text |-> text, base |-> base, ticket |-> 0,
                    left |-> FALSE]
        /\ \A d \in Callers \ {c} : call'[d] = call[d]
        /\ UNCHANGED <<cacheVars, configVars, silent, file, history, unrecorded, wrong>>
    BY <2>1, BeginFacts DEF Places
  <2>3. Held' /\ lock' \in Callers \cup {None} /\ turn' = turn
    BY <1>0, <1>1, <2>2 DEF BeginTool, Held
  <2>4. mixed' \in BOOLEAN
    BY <1>0, <1>1 DEF BeginTool, Meets
  <2>. QED
    BY <1>0, <1>l, <2>2, <2>3, <2>4 DEF cacheVars, configVars
<1>2. ASSUME NEW c \in Callers, NEW o \in Request, BeginRequest(c, o) PROVE Types'
  <2>0. started < MaxOps /\ started + 1 \in Content
    BY <1>0, <1>2 DEF BeginRequest, Begin, Content
  <2>1. PICK p \in {"record", "scan"}, text \in Content \cup {None}, base \in Content \cup {None} :
          Begin(c, o, p, text, base)
    <3>1. CASE o = "remove"
      BY <1>0, <1>2, <3>1 DEF BeginRequest
    <3>2. CASE o # "remove"
      BY <1>0, <1>2, <2>0, <3>2 DEF BeginRequest
    <3>. QED
      BY <3>1, <3>2
  <2>2. /\ call' \in [Callers -> Calls] /\ started' \in 0 .. MaxOps
        /\ call'[c] = [pc |-> p, op |-> o, text |-> text, base |-> base, ticket |-> 0,
                    left |-> FALSE]
        /\ \A d \in Callers \ {c} : call'[d] = call[d]
        /\ UNCHANGED <<cacheVars, configVars, silent, file, history, unrecorded, wrong>>
    BY <2>1, BeginFacts DEF Places
  <2>3. Held' /\ lock' \in Callers \cup {None} /\ turn' \in Callers \cup {None}
    BY <1>0, <1>2, <2>2 DEF BeginRequest, Held, Tool, Request
  <2>4. mixed' \in BOOLEAN
    BY <1>0, <1>2 DEF BeginRequest, Meets
  <2>. QED
    BY <1>0, <1>l, <2>2, <2>3, <2>4 DEF cacheVars, configVars
<1>3. ASSUME NEW c \in Callers, NEW i \in DOMAIN history, BeginRollback(c, i) PROVE Types'
  <2>1. history[i].prev \in Content \cup {None}
    <3>1. history[i] \in Record
      BY <1>0, ElementOfSeq, LenProperties
    <3>. QED
      BY <3>1 DEF Record
  <2>2. /\ call' \in [Callers -> Calls] /\ started' \in 0 .. MaxOps
        /\ call'[c].op = "rollback"
        /\ \A d \in Callers \ {c} : call'[d] = call[d]
        /\ UNCHANGED <<cacheVars, configVars, silent, file, history, unrecorded, wrong>>
    <3>1. PICK text \in Content \cup {None} : Begin(c, "rollback", "scan", text, None)
      BY <1>3, <2>1 DEF BeginRollback
    <3>2. QED
      BY <3>1, RollbackFacts
  <2>3. Held' /\ lock' = lock /\ turn' = turn
    BY <1>0, <1>3, <2>2 DEF BeginRollback, Held, Tool
  <2>4. mixed' \in BOOLEAN
    BY <1>0, <1>3 DEF BeginRollback, Meets
  <2>. QED
    BY <1>0, <1>l, <2>2, <2>3, <2>4 DEF cacheVars, configVars
<1>4. ASSUME NEW c \in Callers, Approve(c) PROVE Types'
  <2>1. PICK p \in {"write", "read", "move"} : Goto(c, p)
    BY <1>4 DEF Approve, OpFits, Tool, Request, Removing
  <2>2. call' \in [Callers -> Calls] /\ Held'
    BY <1>4, <2>1, GotoFacts DEF Approve, Places
  <2>. QED
    BY <1>0, <1>4, <1>l, <2>2 DEF Approve, fileVars, configVars, cacheVars
<1>5. ASSUME NEW c \in Callers, Block(c) PROVE Types'
  <2>1. history' \in Seq(Record)
    <3>1. [prev |-> file, new |-> call[c].text, done |-> FALSE] \in Record
      BY <1>0 DEF Record, Calls
    <3>. QED
      BY <1>0, <1>5, <1>a, <3>1 DEF Block
  <2>2. call' \in [Callers -> Calls] /\ Held' /\ lock' \in Callers \cup {None} /\ turn' \in Callers \cup {None}
    BY <1>5, ReturnFacts DEF Block
  <2>. QED
    BY <1>0, <1>5, <1>l, <2>1, <2>2 DEF Block, configVars, cacheVars
<1>6. ASSUME NEW c \in Callers, Read(c) PROVE Types'
  <2>1. CASE Return(c)
    <3>1. call' \in [Callers -> Calls] /\ Held' /\ lock' \in Callers \cup {None} /\ turn' \in Callers \cup {None}
      BY <2>1, ReturnFacts
    <3>. QED
      BY <1>0, <1>6, <1>l, <3>1 DEF Read, fileVars, configVars, cacheVars
  <2>2. CASE call' = [call EXCEPT ![c].pc = "write", ![c].base = file] /\ UNCHANGED <<lock, turn>>
    <3>1. call' \in [Callers -> Calls] /\ Held'
      BY <1>0, <1>6, <2>2 DEF Read, Held, Calls, Places
    <3>. QED
      BY <1>0, <1>6, <1>l, <2>2, <3>1 DEF Read, fileVars, configVars, cacheVars
  <2>. QED
    BY <1>6, <2>1, <2>2 DEF Read
<1>7. ASSUME NEW c \in Callers, Write(c) PROVE Types'
  <2>1. /\ call' \in [Callers -> Calls] /\ Held'
        /\ lock' \in Callers \cup {None} /\ turn' \in Callers \cup {None}
    BY <1>0, <1>7, GotoFacts, ReturnFacts DEF Write, GoesOn, Places
  <2>2. call[c].text \in Content \cup {None}
    BY <1>0 DEF Calls
  <2>. QED
    BY <1>0, <1>7, <1>l, <2>1, <2>2 DEF Write, configVars, cacheVars
<1>8. ASSUME NEW c \in Callers, AppendHistory(c) PROVE Types'
  <2>1. history' \in Seq(Record)
    <3>1. [prev |-> call[c].base, new |-> call[c].text, done |-> TRUE] \in Record
      BY <1>0 DEF Record, Calls
    <3>. QED
      BY <1>0, <1>8, <1>a, <3>1 DEF AppendHistory
  <2>2. /\ call' \in [Callers -> Calls] /\ Held'
        /\ lock' \in Callers \cup {None} /\ turn' \in Callers \cup {None}
    BY <1>0, <1>8, GotoFacts, AnnounceFacts, ReturnFacts DEF AppendHistory, GoesOn, Places
  <2>. QED
    BY <1>0, <1>8, <1>l, <2>1, <2>2 DEF AppendHistory, configVars, cacheVars
<1>9. ASSUME NEW c \in Callers, AppendFails(c) PROVE Types'
  <2>1. unrecorded' \in BOOLEAN /\ silent' \in BOOLEAN
    BY <1>0, <1>9 DEF AppendFails
  <2>2. CASE Return(c)
    <3>1. call' \in [Callers -> Calls] /\ Held' /\ lock' \in Callers \cup {None} /\ turn' \in Callers \cup {None}
      BY <2>2, ReturnFacts
    <3>. QED
      BY <1>0, <1>9, <1>l, <2>1, <3>1 DEF AppendFails, configVars, cacheVars
  <2>3. CASE Goto(c, "unlink") /\ UNCHANGED <<lock, turn>>
    <3>1. call' \in [Callers -> Calls] /\ Held'
      BY <1>9, <2>3, GotoFacts DEF AppendFails, Places
    <3>. QED
      BY <1>0, <1>9, <1>l, <2>1, <2>3, <3>1 DEF AppendFails, configVars, cacheVars
  <2>. QED
    BY <1>9, <2>2, <2>3 DEF AppendFails
<1>10. ASSUME NEW c \in Callers, Unlink(c) PROVE Types'
  <2>1. /\ call' \in [Callers -> Calls] /\ Held'
        /\ lock' \in Callers \cup {None} /\ turn' \in Callers \cup {None}
    BY <1>0, <1>10, AnnounceFacts, ReturnFacts DEF Unlink, GoesOn
  <2>. QED
    BY <1>0, <1>10, <1>l, <2>1 DEF Unlink, configVars, cacheVars
<1>f. ASSUME NEW c \in Callers, UnlinkFails(c) PROVE Types'
  <2>1. /\ call' \in [Callers -> Calls] /\ Held'
        /\ lock' \in Callers \cup {None} /\ turn' \in Callers \cup {None}
    BY <1>f, ReturnFacts DEF UnlinkFails
  <2>2. /\ file' \in Content \cup {None} /\ wrong' \in BOOLEAN /\ unrecorded' \in BOOLEAN
        /\ silent' \in BOOLEAN
    BY <1>0, <1>f DEF UnlinkFails
  <2>. QED
    BY <1>0, <1>f, <1>l, <2>1, <2>2 DEF UnlinkFails, configVars, cacheVars
<1>11. ASSUME NEW c \in Callers, Install(c) PROVE Types'
  <2>1. call' \in [Callers -> Calls] /\ Held' /\ lock' \in Callers \cup {None} /\ turn' \in Callers \cup {None}
    <3>1. ~call[c].left
      BY <1>11 DEF Install, OpFits, At
    <3>. QED
      BY <1>0, <1>11, <3>1, AnnounceFacts, ReturnFacts DEF Install
  <2>2. file' \in Content \cup {None} /\ unrecorded' \in BOOLEAN
    BY <1>0, <1>11 DEF Install, Calls
  <2>. QED
    BY <1>0, <1>11, <1>l, <2>1, <2>2 DEF Install, configVars, cacheVars
<1>12. ASSUME NEW c \in Callers, Cancel(c) PROVE Types'
  <2>1. call' \in [Callers -> Calls] /\ Held' /\ lock' \in Callers \cup {None} /\ turn' \in Callers \cup {None}
    BY <1>12, ReturnFacts, LeaveFacts DEF Cancel
  <2>2. silent' \in BOOLEAN
    BY <1>0, <1>12 DEF Cancel
  <2>. QED
    BY <1>0, <1>12, <1>l, <2>1, <2>2 DEF Cancel, fileVars, configVars, cacheVars
<1>b. ASSUME NEW c \in Callers, NEW o \in Setting, BeginSetting(c, o)
      PROVE  call' \in [Callers -> Calls] /\ Held' /\ started' \in 0 .. MaxOps
  <2>1. PICK new \in Calls : new.op = o /\ call' = [call EXCEPT ![c] = new]
    <3>1. [NoCall EXCEPT !.pc = "config", !.op = o] \in Calls
      BY DEF NoCall, Calls, Places
    <3>2. [NoCall EXCEPT !.pc = "config", !.op = o].op = o
      BY DEF NoCall
    <3>. QED
      BY <1>b, <3>1, <3>2 DEF BeginSetting
  <2>2. o \notin Tool
    BY DEF Setting, Tool
  <2>. QED
    BY <1>0, <1>b, <2>1, <2>2 DEF BeginSetting, Held
<1>13. ASSUME NEW c \in Callers, NEW v \in State, Toggle(c, v) PROVE Types'
  <2>1. call' \in [Callers -> Calls] /\ Held' /\ started' \in 0 .. MaxOps
    BY <1>13, <1>b DEF Toggle, Setting
  <2>. QED
    BY <1>0, <1>13, <1>l, <2>1 DEF Toggle, BeginSetting, fileVars, cacheVars
<1>14. ASSUME NEW c \in Callers, Servers(c) PROVE Types'
  <2>1. call' \in [Callers -> Calls] /\ Held' /\ started' \in 0 .. MaxOps
    BY <1>14, <1>b DEF Servers, Setting
  <2>2. silent' \in BOOLEAN
    BY <1>0, <1>14 DEF Servers
  <2>. QED
    BY <1>0, <1>14, <1>l, <2>1, <2>2 DEF Servers, BeginSetting, fileVars, cacheVars
<1>15. ASSUME NEW c \in Callers, WriteConfig(c) PROVE Types'
  <2>1. call' \in [Callers -> Calls] /\ Held'
    BY <1>15, GotoFacts DEF WriteConfig, Places
  <2>. QED
    BY <1>0, <1>15, <1>l, <2>1 DEF WriteConfig, fileVars, cacheVars
<1>16. ASSUME NEW c \in Callers, WriteFails(c) PROVE Types'
  <2>1. call' \in [Callers -> Calls] /\ Held' /\ lock' \in Callers \cup {None} /\ turn' \in Callers \cup {None}
    BY <1>16, ReturnFacts DEF WriteFails
  <2>. QED
    BY <1>0, <1>16, <1>l, <2>1 DEF WriteFails, fileVars, configVars, cacheVars
<1>17. ASSUME NEW c \in Callers, Reload(c) PROVE Types'
  <2>1. call' \in [Callers -> Calls] /\ Held' /\ lock' \in Callers \cup {None} /\ turn' \in Callers \cup {None}
    <3>1. ~call[c].left
      BY <1>17 DEF Reload, OpFits, At
    <3>. QED
      BY <1>0, <1>17, <3>1, AnnounceFacts, ReturnFacts DEF Reload
  <2>2. settings' \in State
    BY <1>0, <1>17 DEF Reload, ConfigTorn
  <2>. QED
    BY <1>0, <1>17, <1>l, <2>1, <2>2 DEF Reload, fileVars, cacheVars
<1>18. ASSUME NEW v \in State, Elsewhere(v) PROVE Types'
  BY <1>0, <1>18, <1>l, <1>h DEF Elsewhere, fileVars, cacheVars
<1>19. ASSUME NEW c \in Callers, Invalidate(c) PROVE Types'
  <2>1. call' \in [Callers -> Calls] /\ Held'
    <3>1. PICK new \in Calls : /\ new.op = call[c].op /\ new.left = call[c].left
                               /\ call' = [call EXCEPT ![c] = new]
      <4>1. [call[c] EXCEPT !.pc = "refresh", !.ticket = version + 1] \in Calls
        <5>1. call[c] \in Calls /\ version + 1 \in Nat /\ "refresh" \in Places
          BY <1>0 DEF Places
        <5>. QED
          BY <5>1 DEF Calls
      <4>2. call' = [call EXCEPT ![c] = [call[c] EXCEPT !.pc = "refresh", !.ticket = version + 1]]
        BY <1>0, <1>19 DEF Invalidate
      <4>3. /\ [call[c] EXCEPT !.pc = "refresh", !.ticket = version + 1].op = call[c].op
            /\ [call[c] EXCEPT !.pc = "refresh", !.ticket = version + 1].left = call[c].left
        BY <1>0 DEF Calls
      <4>. QED
        BY <4>1, <4>2, <4>3
    <3>2. ASSUME NEW d \in Callers, call'[d].pc # "idle", call'[d].op \in Tool, ~call'[d].left
          PROVE  call[d].pc # "idle" /\ call[d].op \in Tool /\ ~call[d].left
      <4>1. CASE d = c
        BY <1>0, <1>19, <3>1, <3>2, <4>1 DEF Invalidate
      <4>2. CASE d # c
        BY <1>0, <3>1, <3>2, <4>2
      <4>. QED
        BY <4>1, <4>2
    <3>3. lock' = lock
      BY <1>19 DEF Invalidate
    <3>4. Held'
      <4>1. Held
        BY <1>0
      <4>. HIDE DEF Types
      <4>. QED
        BY <3>2, <3>3, <4>1 DEF Held
    <3>. QED
      BY <1>0, <3>1, <3>4
  <2>2. active' = TRUE /\ loader' \in [Loaders -> Loads] /\ OneLoads'
    BY <1>19, LoadFacts DEF Invalidate
  <2>3. version' \in Nat /\ filled' \in 0 .. version' /\ cache' = Unset
    BY <1>0, <1>19 DEF Invalidate
  <2>. QED
    BY <1>0, <1>19, <2>1, <2>2, <2>3 DEF Invalidate, fileVars, configVars
<1>20. ASSUME NEW c \in Callers, StartWait(c) PROVE Types'
  <2>1. call' \in [Callers -> Calls] /\ Held' /\ lock' \in Callers \cup {None} /\ turn' \in Callers \cup {None}
    <3>1. CASE event
      BY <1>20, <3>1, ReturnFacts DEF StartWait
    <3>2. CASE ~event
      BY <1>0, <1>20, <3>2, GotoFacts DEF StartWait, Places
    <3>. QED
      BY <3>1, <3>2
  <2>. QED
    BY <1>0, <1>20, <1>l, <2>1 DEF StartWait, fileVars, configVars, cacheVars
<1>21. CASE Ensure
  <2>1. active' = TRUE /\ loader' \in [Loaders -> Loads] /\ OneLoads'
    BY <1>21, LoadFacts DEF Ensure
  <2>. QED
    BY <1>0, <1>21, <1>h, <2>1 DEF Ensure, fileVars, configVars, callVars
<1>22. ASSUME NEW w \in Loaders, LoaderGoes(w) PROVE Types'
  <2>l. ASSUME NEW n \in Loads, n.at # "idle", loader[w].at # "idle",
               loader' = [loader EXCEPT ![w] = n], UNCHANGED active
        PROVE  loader' \in [Loaders -> Loads] /\ OneLoads'
    BY <1>0, <2>l DEF OneLoads
  <2>1. CASE Target(w)
    <3>1. loader' \in [Loaders -> Loads] /\ OneLoads'
      <4>1. [Fresh EXCEPT !.at = "files", !.target = version] \in Loads
        BY <1>0 DEF Fresh, Loads
      <4>. QED
        BY <2>1, <2>l, <4>1 DEF Target, Fresh, cacheVars
    <3>2. /\ UNCHANGED <<fileVars, configVars, callVars, cache, version, active, event, filled, silent>>
          /\ misread' = FALSE
      BY <2>1 DEF Target
    <3>3. Held'
      BY <1>h, <3>2 DEF callVars
    <3>. QED
      BY <1>0, <3>1, <3>2, <3>3 DEF fileVars, configVars, callVars
  <2>2. ASSUME NEW from \in {"files", "config"}, NEW to \in {"config", "fill"},
               NEW found \in Content \cup {None}, NEW on \in BOOLEAN,
               LoaderStep(w, from, to, found, on), misread' \in BOOLEAN
        PROVE  Types'
    <3>1. loader' \in [Loaders -> Loads] /\ OneLoads'
      <4>1. [loader[w] EXCEPT !.at = to, !.found = found, !.on = on] \in Loads
        BY <1>0 DEF Loads
      <4>. QED
        BY <1>0, <2>2, <2>l, <4>1 DEF LoaderStep, Loads
    <3>. QED
      BY <1>0, <1>h, <2>2, <3>1 DEF LoaderStep, fileVars, configVars, callVars
  <2>3. CASE Files(w)
    BY <1>0, <2>2, <2>3 DEF Files
  <2>4. CASE Config(w)
    <3>1. loader[w].found \in Content \cup {None}
      BY <1>0 DEF Loads
    <3>. QED
      BY <1>0, <2>2, <2>4, <3>1 DEF Config
  <2>5. CASE LoadFails(w)
    BY <2>2, <2>5 DEF LoadFails
  <2>6. CASE Fill(w)
    <3>1. loader' \in [Loaders -> Loads] /\ OneLoads'
      BY <1>0, <2>6 DEF Fill, OneLoads
    <3>2. /\ call' \in [Callers -> Calls]
          /\ Held' /\ lock' \in Callers \cup {None}
      BY <1>0, <2>6 DEF Fill, Held
    <3>3. cache' \in Content \cup {None, Unset} /\ filled' \in 0 .. version'
      BY <1>0, <2>6 DEF Fill, Loads
    <3>. QED
      BY <1>0, <2>6, <3>1, <3>2, <3>3 DEF Fill, fileVars, configVars
  <2>7. CASE LoadAgain(w)
    <3>1. loader' \in [Loaders -> Loads] /\ OneLoads'
      <4>1. [Fresh EXCEPT !.at = "target"] \in Loads
        BY DEF Fresh, Loads
      <4>. QED
        BY <2>7, <2>l, <4>1 DEF LoadAgain, Fresh
    <3>. QED
      BY <1>0, <1>h, <2>7, <3>1 DEF LoadAgain, fileVars, configVars, callVars
  <2>. QED
    BY <1>22, <2>1, <2>3, <2>4, <2>5, <2>6, <2>7 DEF LoaderGoes
<1>23. CASE UNCHANGED vars
  BY <1>0, <1>h, <1>l, <1>23 DEF vars, fileVars, configVars, callVars, cacheVars
<1>. QED
  BY <1>1, <1>2, <1>3, <1>4, <1>5, <1>6, <1>7, <1>8, <1>9, <1>10, <1>f, <1>11, <1>12, <1>13,
     <1>14, <1>15, <1>16, <1>17, <1>18, <1>19, <1>20, <1>21, <1>22, <1>23
     DEF Next, Call, Go

-----------------------------------------------------------------------------
(* Where calls are.                                                        *)

Placed == OpFits /\ LoopHeld /\ ConfigTorn

LEMMA PlacedReturn ==
  ASSUME TypeOK, Placed, NEW c \in Callers, Return(c), UNCHANGED config PROVE Placed'
<1>1. /\ call'[c].pc = "idle" /\ ~call'[c].left
      /\ \A d \in Callers \ {c} : call'[d] = call[d]
  BY ReturnFacts, Constants DEF NoCall
<1>2. \A d \in Callers \ {c} : turn = d => turn' = d
  BY ReturnFacts
<1>3. OpFits'
  BY <1>1 DEF Placed, OpFits, At
<1>4. LoopHeld'
  BY <1>1, <1>2 DEF Placed, LoopHeld, At, Keeps
<1>5. ConfigTorn'
  BY <1>1 DEF Placed, ConfigTorn
<1>. QED
  BY <1>3, <1>4, <1>5 DEF Placed

LEMMA PlacedAnnounce ==
  ASSUME TypeOK, Placed, NEW c \in Callers, Announce(c), call[c].pc # "idle", ~call[c].left,
         UNCHANGED turn, config' = config
  PROVE  Placed'
<1>1. /\ call'[c].pc = "invalidate" /\ ~call'[c].left
      /\ \A d \in Callers \ {c} : call'[d] = call[d]
  BY AnnounceFacts, Constants
<1>3. OpFits'
  BY <1>1 DEF Placed, OpFits, At
<1>4. LoopHeld'
  BY <1>1 DEF Placed, LoopHeld, At, Keeps
<1>5. ConfigTorn'
  BY <1>1 DEF Placed, ConfigTorn
<1>. QED
  BY <1>3, <1>4, <1>5 DEF Placed

LEMMA PlacedLeave ==
  ASSUME TypeOK, Placed, NEW c \in Callers, call' = [call EXCEPT ![c].left = TRUE], Give(c),
         At(c, {"write", "record", "unlink"}, Tool), UNCHANGED config
  PROVE  Placed'
<1>1. /\ call'[c].pc = call[c].pc /\ call'[c].op = call[c].op /\ call'[c].text = call[c].text
      /\ \A d \in Callers \ {c} : call'[d] = call[d]
  <2>1. call'[c] = [call[c] EXCEPT !.left = TRUE] /\ call[c] \in Calls
    BY LeaveFacts, TypeParts DEF Types
  <2>. QED
    BY <2>1, LeaveFacts DEF Calls
<1>2. \A d \in Callers \ {c} : turn = d => turn' = d
  BY LeaveFacts
<1>3. OpFits'
  BY <1>1 DEF Placed, OpFits, At
<1>4. LoopHeld'
  BY <1>1, <1>2 DEF Placed, LoopHeld, At, Keeps, Tool, Request, Setting
<1>5. ConfigTorn'
  BY <1>1 DEF Placed, ConfigTorn
<1>. QED
  BY <1>3, <1>4, <1>5 DEF Placed

LEMMA PlacedBegin ==
  ASSUME TypeOK, Placed, NEW c \in Callers, NEW o \in Tool \cup Request, NEW p \in Places,
         NEW text \in Content \cup {None}, NEW base \in Content \cup {None},
         Begin(c, o, p, text, base),
         \/ p = "scan" /\ o \notin Removing /\ text # None
         \/ p = "record" /\ o \in Removing /\ text = None /\ (o \in Request => turn' = c)
  PROVE  Placed'
<1>1. /\ call'[c].pc = p /\ call'[c].op = o /\ call'[c].text = text /\ ~call'[c].left
      /\ \A d \in Callers \ {c} : call'[d] = call[d]
      /\ turn = None /\ config' = config
  <2>1. /\ call'[c] = [pc |-> p, op |-> o, text |-> text, base |-> base, ticket |-> 0,
                    left |-> FALSE]
        /\ \A d \in Callers \ {c} : call'[d] = call[d]
        /\ turn = None /\ UNCHANGED configVars
    BY BeginFacts
  <2>. QED
    BY <2>1 DEF configVars
<1>2. OpFits'
  BY <1>1 DEF Placed, OpFits, At, Tool, Request, Removing
<1>3. LoopHeld'
  BY <1>1, Constants DEF Placed, LoopHeld, At, Keeps, Tool, Request, Setting
<1>4. ConfigTorn'
  BY <1>1 DEF Placed, ConfigTorn
<1>. QED
  BY <1>2, <1>3, <1>4 DEF Placed

(* A call that goes on to a place where only its operation matters.        *)
LEMMA PlacedGoto ==
  ASSUME TypeOK, Placed, NEW c \in Callers, NEW p \in Places, Goto(c, p), call[c].pc # "idle",
         UNCHANGED turn,
         \/ p = "record" /\ call[c].pc = "write" /\ config' = config
         \/ p = "unlink" /\ call[c].pc = "record" /\ call[c].op \in Removing /\ config' = config
         \/ p = "reload" /\ call[c].pc = "config" /\ config' # Torn
         \/ p = "waiting" /\ call[c].pc = "refresh" /\ config' = config
  PROVE  Placed'
<1>1. /\ call'[c].pc = p /\ call'[c].op = call[c].op /\ call'[c].text = call[c].text
      /\ call'[c].left = call[c].left
      /\ \A d \in Callers \ {c} : call'[d] = call[d]
  <2>1. call'[c] = [call[c] EXCEPT !.pc = p] /\ call[c] \in Calls
    BY GotoFacts, TypeParts DEF Types
  <2>. QED
    BY <2>1, GotoFacts DEF Calls
<1>2. OpFits'
  BY <1>1 DEF Placed, OpFits, At, Tool, Request, Removing, Setting
<1>3. LoopHeld'
  BY <1>1 DEF Placed, LoopHeld, OpFits, At, Keeps, Tool, Request, Setting, Removing
<1>4. ConfigTorn'
  <2>1. CASE p # "reload"
    BY <1>1, <2>1 DEF Placed, ConfigTorn
  <2>2. CASE p = "reload"
    BY <1>1, <2>2 DEF Placed, ConfigTorn, LoopHeld, OpFits, At, Keeps
  <2>. QED
    BY <2>1, <2>2
<1>. QED
  BY <1>2, <1>3, <1>4 DEF Placed

LEMMA PlacedInit == Init => Placed
  BY Constants DEF Init, Placed, OpFits, LoopHeld, ConfigTorn, At, Keeps

LEMMA PlacedInv ==
  ASSUME TypeOK, TypeOK', Placed, [Next]_vars PROVE Placed'
<1>0. Types
  BY TypeParts
<1>. USE Constants DEF Types
<1>1. ASSUME NEW c \in Callers, NEW o \in Tool, BeginTool(c, o) PROVE Placed'
  <2>0. started < MaxOps /\ started + 1 \in Content
    BY <1>0, <1>1 DEF BeginTool, Begin, Content
  <2>1. CASE o = "erase"
    <3>1. Begin(c, o, "record", None, file)
      BY <1>1, <2>1 DEF BeginTool
    <3>. QED
      BY <1>0, <2>1, <3>1, PlacedBegin DEF Places, Removing, Tool, Request
  <2>2. CASE o # "erase"
    <3>1. PICK base \in Content \cup {None} : Begin(c, o, "scan", started + 1, base)
      BY <1>0, <1>1, <2>2 DEF BeginTool
    <3>. QED
      BY <1>0, <2>0, <2>2, <3>1, PlacedBegin DEF Places, Removing, Tool, Request
  <2>. QED
    BY <2>1, <2>2
<1>2. ASSUME NEW c \in Callers, NEW o \in Request, BeginRequest(c, o) PROVE Placed'
  <2>0. started < MaxOps /\ started + 1 \in Content
    BY <1>0, <1>2 DEF BeginRequest, Begin, Content
  <2>1. CASE o = "remove"
    <3>1. Begin(c, o, "record", None, file) /\ turn' = c
      BY <1>2, <2>1 DEF BeginRequest
    <3>. QED
      BY <1>0, <2>1, <3>1, PlacedBegin DEF Places, Removing, Tool, Request
  <2>2. CASE o # "remove"
    <3>1. Begin(c, o, "scan", started + 1, None)
      BY <1>0, <1>2, <2>2 DEF BeginRequest
    <3>. QED
      BY <1>0, <2>0, <2>2, <3>1, PlacedBegin DEF Places, Removing, Tool, Request
  <2>. QED
    BY <2>1, <2>2
<1>3. ASSUME NEW c \in Callers, NEW i \in DOMAIN history, BeginRollback(c, i) PROVE Placed'
  <2>1. history[i].prev \in Content /\ history[i].prev # None
    <3>1. history[i] \in Record
      BY <1>0, ElementOfSeq, LenProperties
    <3>. QED
      BY <1>3, <3>1 DEF Record, BeginRollback
  <2>2. Begin(c, "rollback", "scan", history[i].prev, None)
    BY <1>3 DEF BeginRollback
  <2>. HIDE DEF Types
  <2>. QED
    BY <2>1, <2>2, PlacedBegin DEF Places, Removing, Tool, Request
<1>4. ASSUME NEW c \in Callers, Approve(c) PROVE Placed'
  <2>1. PICK p \in {"write", "read", "move"} :
          /\ Goto(c, p)
          /\ \/ p = "write" /\ call[c].op \in {"create", "patch"}
             \/ p = "read" /\ call[c].op \in {"edit", "put", "rollback"}
             \/ p = "move" /\ call[c].op = "install"
    BY <1>4 DEF Approve, Placed, OpFits, Tool, Request, Removing
  <2>2. call'[c] = [call[c] EXCEPT !.pc = p] /\ \A d \in Callers \ {c} : call'[d] = call[d]
    BY <1>4, <2>1, GotoFacts DEF Approve, Places
  <2>3. /\ call'[c].pc = p /\ call'[c].op = call[c].op /\ call'[c].text = call[c].text
        /\ call'[c].left = call[c].left
    BY <1>0, <2>2 DEF Calls
  <2>5. OpFits'
    <3>1. call[c].text # None
      BY <1>4 DEF Approve, Placed, OpFits
    <3>2. ~call'[c].left
      BY <1>4, <2>3 DEF Approve, Placed, OpFits, At
    <3>. QED
      <4>1. ASSUME NEW d \in Callers \ {c} PROVE call'[d] = call[d]
        BY <2>2
      <4>2. call'[c].text # None /\ call'[c].pc \notin {"record", "unlink", "scan", "config", "reload"}
        BY <2>1, <2>3, <3>1
      <4>3. /\ call'[c].pc = "read" => call'[c].op \in {"edit", "put", "rollback"}
            /\ call'[c].pc = "write" => call'[c].op \in {"create", "patch"}
            /\ call'[c].pc = "move" => call'[c].op = "install"
        BY <2>1, <2>3
      <4>. HIDE DEF Types
      <4>. QED
        BY <3>2, <4>1, <4>2, <4>3 DEF Placed, OpFits, At
  <2>6. LoopHeld'
    BY <1>4, <2>1, <2>2, <2>3 DEF Placed, LoopHeld, At, Approve, Request, Setting, Keeps, OpenLoop
  <2>7. ConfigTorn'
    BY <1>4, <2>1, <2>2, <2>3 DEF Placed, ConfigTorn, Approve, configVars
  <2>. QED
    BY <2>5, <2>6, <2>7 DEF Placed
<1>5. ASSUME NEW c \in Callers, Block(c) PROVE Placed'
  BY <1>5, PlacedReturn DEF Block, configVars
<1>6. ASSUME NEW c \in Callers, Read(c) PROVE Placed'
  <2>1. CASE Return(c)
    BY <1>6, <2>1, PlacedReturn DEF Read, configVars
  <2>2. CASE call' = [call EXCEPT ![c].pc = "write", ![c].base = file] /\ UNCHANGED turn
    <3>1. /\ call'[c].pc = "write" /\ call'[c].op = call[c].op /\ call'[c].text = call[c].text
          /\ call'[c].left = call[c].left
          /\ \A d \in Callers \ {c} : call'[d] = call[d]
      BY <1>0, <2>2 DEF Calls
    <3>2. OpFits'
      BY <1>6, <3>1 DEF Read, Placed, OpFits, At, Tool, Request, Removing
    <3>3. LoopHeld'
      BY <1>6, <2>2, <3>1 DEF Read, Placed, LoopHeld, At, Keeps
    <3>4. ConfigTorn'
      BY <1>6, <3>1 DEF Read, Placed, ConfigTorn, configVars
    <3>. QED
      BY <3>2, <3>3, <3>4 DEF Placed
  <2>. QED
    BY <1>6, <2>1, <2>2 DEF Read
<1>7. ASSUME NEW c \in Callers, Write(c) PROVE Placed'
  BY <1>7, PlacedGoto, PlacedReturn DEF Write, GoesOn, Places, configVars
<1>8. ASSUME NEW c \in Callers, AppendHistory(c) PROVE Placed'
  <2>1. CASE call[c].op \in Removing
    BY <1>8, <2>1, PlacedGoto DEF AppendHistory, Places, configVars
  <2>2. CASE call[c].op \notin Removing
    BY <1>8, <2>2, PlacedAnnounce, PlacedReturn DEF AppendHistory, GoesOn, configVars
  <2>. QED
    BY <2>1, <2>2
<1>9. ASSUME NEW c \in Callers, AppendFails(c) PROVE Placed'
  <2>1. CASE Return(c)
    BY <1>9, <2>1, PlacedReturn DEF AppendFails, configVars
  <2>2. CASE call[c].op \in Removing /\ Goto(c, "unlink") /\ UNCHANGED turn
    BY <1>9, <2>2, PlacedGoto DEF AppendFails, Places, configVars
  <2>. QED
    BY <1>9, <2>1, <2>2 DEF AppendFails
<1>10. ASSUME NEW c \in Callers, Unlink(c) PROVE Placed'
  BY <1>10, PlacedAnnounce, PlacedReturn DEF Unlink, GoesOn, configVars
<1>f. ASSUME NEW c \in Callers, UnlinkFails(c) PROVE Placed'
  BY <1>f, PlacedReturn DEF UnlinkFails, configVars
<1>11. ASSUME NEW c \in Callers, Install(c) PROVE Placed'
  <2>1. ~call[c].left
    BY <1>11 DEF Install, Placed, OpFits, At
  <2>. QED
    BY <1>11, <2>1, PlacedAnnounce, PlacedReturn DEF Install, configVars
<1>12. ASSUME NEW c \in Callers, Cancel(c) PROVE Placed'
  BY <1>12, PlacedReturn, PlacedLeave DEF Cancel, At, configVars
<1>13. ASSUME NEW c \in Callers, NEW o \in Setting, BeginSetting(c, o) PROVE Placed'
  <2>1. /\ call'[c].pc = "config" /\ call'[c].op = o /\ ~call'[c].left
        /\ \A d \in Callers \ {c} : call'[d] = call[d]
        /\ turn = None /\ turn' = c /\ config' = Torn
    BY <1>0, <1>13 DEF BeginSetting, OpenLoop, NoCall
  <2>2. OpFits'
    BY <2>1 DEF Placed, OpFits, At, Setting
  <2>3. LoopHeld'
    BY <2>1 DEF Placed, LoopHeld, At
  <2>4. ConfigTorn'
    BY <2>1 DEF Placed, ConfigTorn, OpFits, LoopHeld, At, Keeps
  <2>. QED
    BY <2>2, <2>3, <2>4 DEF Placed
<1>15. ASSUME NEW c \in Callers, WriteConfig(c) PROVE Placed'
  <2>1. config' # Torn
    BY <1>0, <1>15 DEF WriteConfig, State, Torn
  <2>. QED
    BY <1>15, <2>1, PlacedGoto DEF WriteConfig, Places
<1>16. ASSUME NEW c \in Callers, WriteFails(c) PROVE Placed'
  BY <1>16, PlacedReturn DEF WriteFails, configVars
<1>17. ASSUME NEW c \in Callers, Reload(c) PROVE Placed'
  <2>1. ~call[c].left
    BY <1>17 DEF Reload, Placed, OpFits, At
  <2>. QED
    BY <1>17, <2>1, PlacedAnnounce, PlacedReturn DEF Reload
<1>18. ASSUME NEW v \in State, Elsewhere(v) PROVE Placed'
  BY <1>0, <1>18 DEF Elsewhere, Placed, OpFits, LoopHeld, ConfigTorn, At, State, Torn
<1>19. ASSUME NEW c \in Callers, Invalidate(c) PROVE Placed'
  <2>1. /\ call'[c].pc = "refresh" /\ ~call'[c].left
        /\ \A d \in Callers \ {c} : call'[d] = call[d]
        /\ turn' = None /\ config' = config /\ turn \in {None, c}
    BY <1>0, <1>19 DEF Invalidate, configVars, Calls, Placed, OpFits, At
  <2>2. OpFits'
    BY <2>1 DEF Placed, OpFits, At
  <2>3. LoopHeld'
    BY <2>1 DEF Placed, LoopHeld, At, Keeps
  <2>4. ConfigTorn'
    BY <2>1 DEF Placed, ConfigTorn
  <2>. QED
    BY <2>2, <2>3, <2>4 DEF Placed
<1>20. ASSUME NEW c \in Callers, StartWait(c) PROVE Placed'
  <2>1. CASE event
    BY <1>20, <2>1, PlacedReturn DEF StartWait, configVars
  <2>2. CASE ~event
    BY <1>20, <2>2, PlacedGoto DEF StartWait, Places, configVars
  <2>. QED
    BY <2>1, <2>2
<1>21. CASE Ensure
  BY <1>21 DEF Ensure, Placed, OpFits, LoopHeld, ConfigTorn, At, callVars, configVars
<1>22. ASSUME NEW w \in Loaders, LoaderGoes(w) PROVE Placed'
  <2>1. CASE Fill(w)
    <3>1. /\ \A d \in Callers : call'[d] = call[d] \/ (call'[d].pc = "idle" /\ ~call'[d].left)
          /\ turn' = turn /\ config' = config
      BY <1>0, <2>1 DEF Fill, configVars, NoCall
    <3>2. OpFits'
      BY <3>1 DEF Placed, OpFits, At
    <3>3. LoopHeld'
      BY <3>1 DEF Placed, LoopHeld, At, Keeps
    <3>4. ConfigTorn'
      BY <3>1 DEF Placed, ConfigTorn
    <3>. QED
      BY <3>2, <3>3, <3>4 DEF Placed
  <2>2. CASE UNCHANGED <<configVars, callVars>>
    BY <2>2 DEF Placed, OpFits, LoopHeld, ConfigTorn, At, callVars, configVars
  <2>. QED
    BY <1>22, <2>1, <2>2 DEF LoaderGoes, Target, Files, Config, LoadFails, LoaderStep, LoadAgain
<1>23. CASE UNCHANGED vars
  BY <1>23 DEF Placed, OpFits, LoopHeld, ConfigTorn, At, vars, callVars, configVars
<1>. QED
  BY <1>1, <1>2, <1>3, <1>4, <1>5, <1>6, <1>7, <1>8, <1>9, <1>10, <1>f, <1>11, <1>12, <1>13,
     <1>15, <1>16, <1>17, <1>18, <1>19, <1>20, <1>21, <1>22, <1>23
     DEF Next, Call, Go, Toggle, Servers, Setting

-----------------------------------------------------------------------------
(* The history.                                                            *)

Recorded == Apart /\ ChangeKnown /\ HistoryKnown

LEMMA PlacedOps ==
  ASSUME Placed, NEW c \in Callers, call[c].pc \in Changing PROVE call[c].op \in Tool \cup Request
  BY DEF Placed, OpFits, Changing, Tool, Request, Removing

(* Of two calls that change the skill one is a request at the scanner: the *)
(* event loop admits one request, and a tool call with another call is     *)
(* mixed.                                                                  *)
LEMMA Alone ==
  ASSUME TypeOK, Placed, Apart, ~mixed, NEW c \in Callers, NEW d \in Callers,
         call[c].pc \in Changing, call[d].pc \in Changing, c # d
  PROVE  \/ call[c].pc = "scan" /\ call[c].op \in Request
         \/ call[d].pc = "scan" /\ call[d].op \in Request
<1>1. call[c].op \in Tool \cup Request /\ call[d].op \in Tool \cup Request
  BY PlacedOps
<1>2. call[c].op \notin Tool /\ call[d].op \notin Tool
  BY DEF Apart, At
<1>4. CASE call[c].op \in Request /\ call[d].op \in Request
  BY <1>4 DEF Placed, LoopHeld, At, Keeps, Changing
<1>. QED
  BY <1>1, <1>2, <1>4

(* A record of what was done is the last one; others do not matter.        *)
LEMMA SaysAppend ==
  ASSUME history \in Seq(Record), NEW r \in Record, history' = Append(history, r)
  PROVE  \A content : /\ r.done => (Says(content)' <=> content = r.new)
                      /\ ~r.done => (Says(content)' <=> Says(content))
<1>1. /\ DOMAIN history = 1 .. Len(history) /\ DOMAIN history' = 1 .. Len(history) + 1
      /\ Len(history) \in Nat
      /\ \A i \in DOMAIN history : history'[i] = history[i]
      /\ history'[Len(history) + 1] = r
  BY AppendProperties, LenProperties
<1>2. CASE r.done
  <2>1. Len(history) + 1 \in Done' /\ \A i \in Done' : i <= Len(history) + 1
    BY <1>1, <1>2 DEF Done
  <2>2. \A i \in Done' : (\A j \in Done' : j <= i) => i = Len(history) + 1
    BY <1>1, <2>1 DEF Done
  <2>. QED
    BY <1>1, <1>2, <2>1, <2>2 DEF Says
<1>3. CASE ~r.done
  <2>1. Done' = Done
    BY <1>1, <1>3 DEF Done
  <2>2. \A i \in Done : history'[i] = history[i]
    BY <1>1 DEF Done
  <2>. QED
    BY <1>3, <2>1, <2>2 DEF Says
<1>. QED
  BY <1>2, <1>3

LEMMA SaysSame == ASSUME UNCHANGED history PROVE \A content : Says(content)' <=> Says(content)
  BY DEF Says, Done

(* A step that changes nothing of the skill.                               *)
LEMMA RecordedQuiet ==
  ASSUME Recorded, UNCHANGED <<file, unrecorded, wrong, mixed>>,
         \A content : Says(content)' <=> Says(content),
         \A d \in Callers : \/ call'[d] = call[d]
                            \/ call'[d].pc \notin Changing /\ call[d].pc # "unlink"
  PROVE  Recorded'
<1>1. Apart'
  BY DEF Recorded, Apart, At
<1>2. ChangeKnown'
  BY DEF Recorded, ChangeKnown, At, Changing
<1>3. Unlinking' <=> Unlinking
  BY DEF Unlinking, Changing
<1>4. HistoryKnown'
  BY <1>3 DEF Recorded, HistoryKnown
<1>. QED
  BY <1>1, <1>2, <1>4 DEF Recorded

LEMMA RecordedReturn ==
  ASSUME TypeOK, Recorded, NEW c \in Callers, Return(c), call[c].pc # "unlink",
         UNCHANGED <<file, unrecorded, wrong, mixed>>,
         \A content : Says(content)' <=> Says(content)
  PROVE  Recorded'
  BY ReturnFacts, RecordedQuiet, Constants DEF Changing

(* A call that begins has read the file.                                   *)
LEMMA RecordedBegin ==
  ASSUME TypeOK, Placed, Recorded, NEW c \in Callers, NEW o \in Tool \cup Request, NEW p \in Places,
         NEW text \in Content \cup {None}, NEW base \in Content \cup {None},
         Begin(c, o, p, text, base), NEW kind, Meets(c, kind),
         o \in Tool => kind = Tool \cup Request, o \in Request => kind = Tool,
         \/ p = "scan" /\ (o \in {"create", "patch"} => base = file)
         \/ p = "record" /\ o \in Removing /\ base = file
  PROVE  Recorded'
<1>1. /\ call'[c].pc = p /\ call'[c].op = o /\ call'[c].base = base
      /\ \A d \in Callers \ {c} : call'[d] = call[d]
      /\ call[c].pc = "idle" /\ UNCHANGED <<file, history, unrecorded, wrong>>
  <2>1. /\ call'[c] = [pc |-> p, op |-> o, text |-> text, base |-> base, ticket |-> 0,
                    left |-> FALSE]
        /\ \A d \in Callers \ {c} : call'[d] = call[d]
        /\ call[c].pc = "idle" /\ UNCHANGED <<file, history, unrecorded, wrong>>
    BY BeginFacts
  <2>. QED
    BY <2>1
<1>2. \A content : Says(content)' <=> Says(content)
  BY <1>1, SaysSame
<1>3. Apart'
  <2>1. ASSUME ~mixed', NEW d \in Callers \ {c}, call[d].pc \in Changing
        PROVE  o \notin Tool /\ call[d].op \notin Tool
    BY <2>1, PlacedOps DEF Meets
  <2>. QED
    BY <1>1, <2>1 DEF Recorded, Apart, At, Meets
<1>4. mixed => mixed'
  BY DEF Meets
<1>5. ChangeKnown'
  BY <1>1, <1>4 DEF Recorded, ChangeKnown, At, Removing
<1>6. Unlinking' <=> Unlinking
  BY <1>1 DEF Unlinking
<1>7. HistoryKnown'
  BY <1>1, <1>2, <1>4, <1>6 DEF Recorded, HistoryKnown
<1>. QED
  BY <1>3, <1>5, <1>7 DEF Recorded

LEMMA RecordedInit == Init => Recorded
<1>. SUFFICES ASSUME Init PROVE Recorded
  OBVIOUS
<1>1. Done = {} /\ Says(None)
  BY DEF Init, Done, Says
<1>2. \A c \in Callers : call[c].pc = "idle"
  BY Constants DEF Init
<1>. QED
  BY <1>1, <1>2 DEF Init, Recorded, Apart, ChangeKnown, HistoryKnown, Unlinking, At, Changing

LEMMA RecordedInv ==
  ASSUME TypeOK, Placed, Recorded, [Next]_vars PROVE Recorded'
<1>0. Types
  BY TypeParts
<1>s. UNCHANGED history => \A content : Says(content)' <=> Says(content)
  BY SaysSame
<1>a. ASSUME ~mixed, NEW c \in Callers, NEW d \in Callers, c # d, call[c].pc \in Changing \ {"scan"},
             call[d].pc \in Changing
      PROVE  call[d].pc = "scan" /\ call[d].op \in Request
  BY <1>a, Alone DEF Recorded
<1>. USE Constants
<1>1. ASSUME NEW c \in Callers, NEW o \in Tool, BeginTool(c, o) PROVE Recorded'
  <2>1. CASE o = "erase"
    <3>1. Begin(c, o, "record", None, file) /\ Meets(c, Tool \cup Request)
      BY <1>1, <2>1 DEF BeginTool
    <3>2. /\ o \in Tool \cup Request /\ o \in Removing /\ o \notin Request
          /\ "record" \in Places /\ file \in Content \cup {None} /\ None \in Content \cup {None}
      BY <1>0, <2>1 DEF Types, Places, Removing, Tool, Request
    <3>. QED
      BY <3>1, <3>2, RecordedBegin
  <2>2. CASE o # "erase"
    <3>0. started + 1 \in Content
      BY <1>0, <1>1 DEF Types, BeginTool, Begin, Content
    <3>1. PICK base \in Content \cup {None} :
            Begin(c, o, "scan", started + 1, base) /\ (o # "edit" => base = file)
      BY <1>0, <1>1, <2>2 DEF Types, BeginTool
    <3>. QED
      <4>1. "scan" \in Places /\ o \in Tool \cup Request /\ o \notin Request /\ Meets(c, Tool \cup Request)
        BY <1>1 DEF BeginTool, Places, Tool, Request
      <4>2. o \in {"create", "patch"} => base = file
        BY <3>1
      <4>. QED
        BY <3>0, <3>1, <4>1, <4>2, RecordedBegin
  <2>. QED
    BY <2>1, <2>2
<1>2. ASSUME NEW c \in Callers, NEW o \in Request, BeginRequest(c, o) PROVE Recorded'
  <2>1. CASE o = "remove"
    <3>1. Begin(c, o, "record", None, file) /\ Meets(c, Tool)
      BY <1>2, <2>1 DEF BeginRequest
    <3>. QED
      BY <1>0, <2>1, <3>1, RecordedBegin DEF Types, Places, Removing, Tool, Request
  <2>2. CASE o # "remove"
    <3>0. started + 1 \in Content
      BY <1>0, <1>2 DEF Types, BeginRequest, Begin, Content
    <3>1. Begin(c, o, "scan", started + 1, None) /\ Meets(c, Tool)
      BY <1>2, <2>2 DEF BeginRequest
    <3>2. "scan" \in Places /\ o \notin Tool /\ o \notin {"create", "patch"}
      BY DEF Places, Tool, Request
    <3>. QED
      BY <3>0, <3>1, <3>2, RecordedBegin
  <2>. QED
    BY <2>1, <2>2
<1>3. ASSUME NEW c \in Callers, NEW i \in DOMAIN history, BeginRollback(c, i) PROVE Recorded'
  <2>1. history[i].prev \in Content
    <3>1. history[i] \in Record
      BY <1>0, ElementOfSeq, LenProperties DEF Types
    <3>. QED
      BY <1>3, <3>1 DEF Record, BeginRollback
  <2>2. Begin(c, "rollback", "scan", history[i].prev, None) /\ Meets(c, Tool)
    BY <1>3 DEF BeginRollback
  <2>3. /\ "scan" \in Places /\ "rollback" \in Tool \cup Request /\ "rollback" \notin Tool
        /\ "rollback" \notin {"create", "patch"}
    BY DEF Places, Tool, Request
  <2>. QED
    BY <2>1, <2>2, <2>3, RecordedBegin
<1>4. ASSUME NEW c \in Callers, Approve(c) PROVE Recorded'
  <2>1. PICK p \in {"write", "read", "move"} :
          Goto(c, p) /\ (p = "write" => call[c].op \in {"create", "patch"})
    BY <1>4 DEF Approve, Placed, OpFits, Tool, Request, Removing
  <2>2. call'[c] = [call[c] EXCEPT !.pc = p] /\ \A d \in Callers \ {c} : call'[d] = call[d]
    BY <1>4, <2>1, GotoFacts DEF Approve, Places
  <2>3. call'[c].pc = p /\ call'[c].op = call[c].op /\ call'[c].base = call[c].base
    BY <1>0, <2>2 DEF Types, Calls
  <2>4. Apart'
    <3>1. \A d \in Callers : /\ call'[d].op = call[d].op
                             /\ call'[d].pc \in Changing => call[d].pc \in Changing
      BY <1>4, <2>2, <2>3 DEF Approve, Changing
    <3>. QED
      BY <1>4, <3>1 DEF Recorded, Apart, At, Approve, fileVars
  <2>5. ChangeKnown'
    <3>1. UNCHANGED <<file, unrecorded, mixed>> /\ call[c].pc = "scan"
      BY <1>4 DEF Approve, fileVars
    <3>2. ASSUME NEW d \in Callers \ {c} PROVE call'[d] = call[d]
      BY <2>2
    <3>. QED
      BY <2>1, <2>3, <3>1, <3>2 DEF Recorded, ChangeKnown, At
  <2>6. Unlinking' <=> Unlinking
    BY <1>4, <2>2, <2>3 DEF Unlinking, Approve
  <2>7. HistoryKnown'
    BY <1>4, <1>s, <2>6 DEF Recorded, HistoryKnown, Approve, fileVars
  <2>. QED
    BY <2>4, <2>5, <2>7 DEF Recorded
<1>5. ASSUME NEW c \in Callers, Block(c) PROVE Recorded'
  <2>1. \A content : Says(content)' <=> Says(content)
    <3>1. CASE call[c].op = "rollback"
      <4>1. [prev |-> file, new |-> call[c].text, done |-> FALSE] \in Record
        BY <1>0 DEF Types, Record, Calls
      <4>. QED
        BY <1>0, <1>5, <3>1, <4>1, SaysAppend DEF Types, Block
    <3>2. CASE call[c].op # "rollback"
      BY <1>5, <1>s, <3>2 DEF Block
    <3>. QED
      BY <3>1, <3>2
  <2>. QED
    BY <1>5, <2>1, RecordedReturn DEF Block
<1>6. ASSUME NEW c \in Callers, Read(c) PROVE Recorded'
  <2>1. CASE Return(c)
    BY <1>6, <1>s, <2>1, RecordedReturn DEF Read, fileVars
  <2>2. CASE call' = [call EXCEPT ![c].pc = "write", ![c].base = file]
    <3>1. /\ call'[c].pc = "write" /\ call'[c].op = call[c].op /\ call'[c].base = file
          /\ \A d \in Callers \ {c} : call'[d] = call[d]
      BY <1>0, <2>2 DEF Types, Calls
    <3>2. Apart'
      BY <1>6, <3>1 DEF Recorded, Apart, At, Read, fileVars, Changing
    <3>3. ChangeKnown'
      BY <1>6, <3>1 DEF Recorded, ChangeKnown, At, Read, fileVars
    <3>4. Unlinking' <=> Unlinking
      BY <1>6, <3>1 DEF Unlinking, Read
    <3>5. HistoryKnown'
      BY <1>6, <1>s, <3>4 DEF Recorded, HistoryKnown, Read, fileVars
    <3>. QED
      BY <3>2, <3>3, <3>5 DEF Recorded
  <2>. QED
    BY <1>6, <2>1, <2>2 DEF Read
<1>7. ASSUME NEW c \in Callers, Write(c) PROVE Recorded'
  <2>1. /\ \/ call'[c].pc = "idle"
           \/ /\ call'[c].pc = "record" /\ call'[c].op = call[c].op
              /\ call'[c].text = call[c].text
        /\ \A d \in Callers \ {c} : call'[d] = call[d]
    <3>1. CASE call[c].left
      BY <1>7, <3>1, ReturnFacts DEF Write, GoesOn
    <3>2. CASE ~call[c].left
      <4>1. /\ call'[c] = [call[c] EXCEPT !.pc = "record"]
            /\ \A d \in Callers \ {c} : call'[d] = call[d]
        BY <1>7, <3>2, GotoFacts DEF Write, GoesOn, Places
      <4>. QED
        BY <1>0, <4>1 DEF Types, Calls
    <3>. QED
      BY <3>1, <3>2
  <2>2. ~mixed => call[c].base = file /\ call[c].op \notin Removing
    BY <1>7 DEF Write, Recorded, ChangeKnown, Placed, OpFits, Removing
  <2>3. Apart'
    BY <1>7, <2>1 DEF Recorded, Apart, At, Write, Changing
  <2>4. ChangeKnown'
    <3>1. ASSUME ~mixed, NEW d \in Callers \ {c}, call[d].pc \in Changing
          PROVE  call[d].pc = "scan" /\ call[d].op \in Request
      BY <1>7, <1>a, <3>1 DEF Write, Changing
    <3>2. ASSUME ~mixed, NEW d \in Callers \ {c}
          PROVE  /\ call'[d].pc \notin {"write", "unlink", "record"}
                 /\ ~(call'[d].pc = "scan" /\ call'[d].op \in {"create", "patch"})
      BY <2>1, <3>1, <3>2 DEF Changing, Request
    <3>. QED
      BY <1>7, <2>1, <2>2, <3>2 DEF ChangeKnown, At, Write
  <2>5. HistoryKnown'
    BY <1>7, <2>2 DEF Recorded, HistoryKnown, Write
  <2>. QED
    BY <2>3, <2>4, <2>5 DEF Recorded
<1>8. ASSUME NEW c \in Callers, AppendHistory(c) PROVE Recorded'
  <2>0. \A content : Says(content)' <=> content = call[c].text
    <3>1. [prev |-> call[c].base, new |-> call[c].text, done |-> TRUE] \in Record
      BY <1>0 DEF Types, Record, Calls
    <3>. QED
      BY <1>0, <1>8, <3>1, SaysAppend DEF Types, AppendHistory
  <2>1. ASSUME ~mixed, NEW d \in Callers \ {c}, call[d].pc \in Changing
        PROVE  call[d].pc = "scan" /\ call[d].op \in Request
    BY <1>8, <1>a, <2>1 DEF AppendHistory, Changing
  <2>2. CASE call[c].op \in Removing
    <3>1. /\ call'[c].pc = "unlink" /\ call'[c].op = call[c].op /\ call'[c].base = call[c].base
          /\ \A d \in Callers \ {c} : call'[d] = call[d]
      <4>1. call'[c] = [call[c] EXCEPT !.pc = "unlink"] /\ \A d \in Callers \ {c} : call'[d] = call[d]
        BY <1>8, <2>2, GotoFacts DEF AppendHistory, Places
      <4>. QED
        BY <1>0, <4>1 DEF Types, Calls
    <3>2. call[c].text = None /\ Unlinking' /\ (~mixed => call[c].base = file)
      BY <1>8, <2>2, <3>1 DEF AppendHistory, Placed, OpFits, Unlinking, Recorded, ChangeKnown, At
    <3>3. Apart'
      BY <1>8, <3>1 DEF Recorded, Apart, At, AppendHistory, Changing
    <3>4. ChangeKnown'
      BY <1>8, <2>1, <3>1, <3>2 DEF Recorded, ChangeKnown, At, AppendHistory, Changing
    <3>5. HistoryKnown'
      BY <1>8, <2>0, <3>2 DEF Recorded, HistoryKnown, AppendHistory
    <3>. QED
      BY <3>3, <3>4, <3>5 DEF Recorded
  <2>3. CASE call[c].op \notin Removing
    <3>1. /\ call'[c].pc \in {"invalidate", "idle"}
          /\ \A d \in Callers \ {c} : call'[d] = call[d]
      BY <1>8, <2>3, AnnounceFacts, ReturnFacts DEF AppendHistory, GoesOn
    <3>2. ~mixed => call[c].text = file
      BY <1>8, <2>3 DEF AppendHistory, Recorded, ChangeKnown
    <3>3. Apart'
      BY <1>8, <3>1 DEF Recorded, Apart, At, AppendHistory, Changing
    <3>4. ChangeKnown'
      BY <1>8, <2>1, <3>1 DEF Recorded, ChangeKnown, At, AppendHistory, Changing
    <3>5. ~mixed => ~Unlinking'
      BY <2>1, <3>1 DEF Unlinking, Changing
    <3>6. HistoryKnown'
      BY <1>8, <2>0, <3>2, <3>5 DEF Recorded, HistoryKnown, AppendHistory
    <3>. QED
      BY <3>3, <3>4, <3>6 DEF Recorded
  <2>. QED
    BY <2>2, <2>3
<1>9. ASSUME NEW c \in Callers, AppendFails(c) PROVE Recorded'
  <2>1. CASE Return(c) /\ UNCHANGED unrecorded
    BY <1>9, <1>s, <2>1, RecordedReturn DEF AppendFails
  <2>2. CASE call[c].op \in Removing /\ unrecorded' = TRUE /\ Goto(c, "unlink")
    <3>1. /\ call'[c].pc = "unlink" /\ call'[c].op = call[c].op /\ call'[c].base = call[c].base
          /\ \A d \in Callers \ {c} : call'[d] = call[d]
      <4>1. call'[c] = [call[c] EXCEPT !.pc = "unlink"] /\ \A d \in Callers \ {c} : call'[d] = call[d]
        BY <1>9, <2>2, GotoFacts DEF AppendFails, Places
      <4>. QED
        BY <1>0, <4>1 DEF Types, Calls
    <3>2. Apart'
      BY <1>9, <3>1 DEF Recorded, Apart, At, AppendFails, Changing
    <3>3. ChangeKnown'
      BY <1>9, <2>2, <3>1 DEF Recorded, ChangeKnown, At, AppendFails
    <3>4. HistoryKnown'
      BY <1>9, <2>2 DEF Recorded, HistoryKnown, AppendFails
    <3>. QED
      BY <3>2, <3>3, <3>4 DEF Recorded
  <2>. QED
    BY <1>9, <2>1, <2>2 DEF AppendFails
<1>10. ASSUME NEW c \in Callers, Unlink(c) PROVE Recorded'
  <2>1. /\ call'[c].pc \in {"invalidate", "idle"}
        /\ \A d \in Callers \ {c} : call'[d] = call[d]
    BY <1>10, AnnounceFacts, ReturnFacts DEF Unlink, GoesOn
  <2>2. ASSUME ~mixed, NEW d \in Callers \ {c}, call[d].pc \in Changing
        PROVE  call[d].pc = "scan" /\ call[d].op \in Request
    BY <1>10, <1>a, <2>2 DEF Unlink, Changing
  <2>3. Unlinking /\ (~mixed => call[c].base = file)
    BY <1>10 DEF Unlink, Unlinking, Recorded, ChangeKnown
  <2>4. Apart'
    BY <1>10, <2>1 DEF Recorded, Apart, At, Unlink, Changing
  <2>5. ChangeKnown'
    <3>1. ASSUME ~mixed, NEW d \in Callers
          PROVE  /\ call'[d].pc \notin {"write", "unlink", "record"}
                 /\ ~(call'[d].pc = "scan" /\ call'[d].op \in {"create", "patch"})
      BY <2>1, <2>2, <3>1 DEF Changing, Request
    <3>. QED
      BY <1>10, <3>1 DEF ChangeKnown, At, Unlink
  <2>6. HistoryKnown'
    BY <1>10, <1>s, <2>3 DEF Recorded, HistoryKnown, Unlink
  <2>. QED
    BY <2>4, <2>5, <2>6 DEF Recorded
<1>f. ASSUME NEW c \in Callers, UnlinkFails(c) PROVE Recorded'
  <2>1. /\ call'[c].pc = "idle"
        /\ \A d \in Callers \ {c} : call'[d] = call[d]
    BY <1>f, ReturnFacts DEF UnlinkFails
  <2>2. ASSUME ~mixed, NEW d \in Callers \ {c}, call[d].pc \in Changing
        PROVE  call[d].pc = "scan" /\ call[d].op \in Request
    BY <1>f, <1>a, <2>2 DEF UnlinkFails, Changing
  <2>3. Unlinking /\ (~mixed => call[c].base = file)
    BY <1>f DEF UnlinkFails, Unlinking, Recorded, ChangeKnown
  <2>4. Apart'
    BY <1>f, <2>1 DEF Recorded, Apart, At, UnlinkFails, Changing
  <2>5. ChangeKnown'
    <3>1. ASSUME ~mixed, NEW d \in Callers
          PROVE  /\ call'[d].pc \notin {"write", "unlink", "record"}
                 /\ ~(call'[d].pc = "scan" /\ call'[d].op \in {"create", "patch"})
      BY <2>1, <2>2, <3>1 DEF Changing, Request
    <3>. QED
      BY <1>f, <3>1 DEF ChangeKnown, At, UnlinkFails
  <2>6. HistoryKnown'
    <3>1. CASE unrecorded' = TRUE /\ UNCHANGED wrong
      BY <1>f, <3>1 DEF Recorded, HistoryKnown, UnlinkFails
    <3>2. CASE /\ file' = None /\ wrong' = (wrong \/ (~mixed /\ file # call[c].base))
               /\ UNCHANGED unrecorded
      BY <1>f, <1>s, <2>3, <3>2 DEF Recorded, HistoryKnown, UnlinkFails
    <3>. QED
      BY <1>f, <3>1, <3>2 DEF UnlinkFails
  <2>. QED
    BY <2>4, <2>5, <2>6 DEF Recorded
<1>11. ASSUME NEW c \in Callers, Install(c) PROVE Recorded'
  <2>1. CASE file # None
    BY <1>11, <1>s, <2>1, RecordedReturn DEF Install
  <2>2. CASE file = None
    <3>1. call'[c].pc = "invalidate" /\ \A d \in Callers \ {c} : call'[d] = call[d]
      <4>1. ~call[c].left
        BY <1>11 DEF Install, Placed, OpFits, At
      <4>. QED
        BY <1>11, <2>2, <4>1, AnnounceFacts DEF Install
    <3>2. ASSUME ~mixed, NEW d \in Callers \ {c}, call[d].pc \in Changing
          PROVE  call[d].pc = "scan" /\ call[d].op \in Request
      BY <1>11, <1>a, <3>2 DEF Install, Changing
    <3>3. Apart'
      BY <1>11, <3>1 DEF Recorded, Apart, At, Install, Changing
    <3>4. ChangeKnown'
      <4>1. ASSUME ~mixed, NEW d \in Callers
            PROVE  /\ call'[d].pc \notin {"write", "unlink", "record"}
                   /\ ~(call'[d].pc = "scan" /\ call'[d].op \in {"create", "patch"})
        BY <3>1, <3>2, <4>1 DEF Changing, Request
      <4>. QED
        BY <1>11, <4>1 DEF ChangeKnown, At, Install
    <3>5. HistoryKnown'
      BY <1>11, <2>2 DEF Recorded, HistoryKnown, Install
    <3>. QED
      BY <3>3, <3>4, <3>5 DEF Recorded
  <2>. QED
    BY <2>1, <2>2
<1>12. ASSUME NEW c \in Callers, Cancel(c) PROVE Recorded'
  <2>1. CASE call[c].pc # "unlink" /\ Return(c)
    BY <1>12, <1>s, <2>1, RecordedReturn DEF Cancel, fileVars
  <2>2. CASE call' = [call EXCEPT ![c].left = TRUE]
    <3>1. \A d \in Callers : /\ call'[d].pc = call[d].pc /\ call'[d].op = call[d].op
                             /\ call'[d].text = call[d].text /\ call'[d].base = call[d].base
      BY <1>0, <2>2 DEF Types, Calls
    <3>2. UNCHANGED <<file, unrecorded, wrong, mixed>> /\ (Unlinking' <=> Unlinking)
      BY <1>12, <3>1 DEF Cancel, fileVars, Unlinking
    <3>3. Apart'
      BY <3>1, <3>2 DEF Recorded, Apart, At
    <3>4. ChangeKnown'
      BY <3>1, <3>2 DEF Recorded, ChangeKnown, At
    <3>5. HistoryKnown'
      BY <1>12, <1>s, <3>2 DEF Recorded, HistoryKnown, Cancel, fileVars
    <3>. QED
      BY <3>3, <3>4, <3>5 DEF Recorded
  <2>. QED
    BY <1>12, <2>1, <2>2 DEF Cancel
<1>13. ASSUME NEW c \in Callers, NEW o \in Setting, BeginSetting(c, o) PROVE Recorded'
  <2>1. /\ call'[c].pc = "config" /\ call[c].pc = "idle"
        /\ \A d \in Callers \ {c} : call'[d] = call[d]
    BY <1>0, <1>13 DEF Types, BeginSetting, Free, NoCall
  <2>. QED
    BY <1>13, <1>s, <2>1, RecordedQuiet DEF BeginSetting, fileVars, Changing
<1>15. ASSUME NEW c \in Callers, WriteConfig(c) PROVE Recorded'
  <2>1. call'[c].pc = "reload" /\ \A d \in Callers \ {c} : call'[d] = call[d]
    BY <1>0, <1>15 DEF Types, WriteConfig, Goto, Calls
  <2>. QED
    BY <1>15, <1>s, <2>1, RecordedQuiet DEF WriteConfig, fileVars, Changing
<1>16. ASSUME NEW c \in Callers, WriteFails(c) PROVE Recorded'
  BY <1>16, <1>s, RecordedReturn DEF WriteFails, fileVars
<1>17. ASSUME NEW c \in Callers, Reload(c) PROVE Recorded'
  <2>1. CASE call[c].op = "toggle"
    <3>1. call'[c].pc = "invalidate" /\ \A d \in Callers \ {c} : call'[d] = call[d]
      <4>1. ~call[c].left
        BY <1>17 DEF Reload, Placed, OpFits, At
      <4>. QED
        BY <1>17, <2>1, <4>1, AnnounceFacts DEF Reload
    <3>. QED
      BY <1>17, <1>s, <3>1, RecordedQuiet DEF Reload, fileVars, Changing
  <2>2. CASE call[c].op # "toggle"
    BY <1>17, <1>s, <2>2, RecordedReturn DEF Reload, fileVars
  <2>. QED
    BY <2>1, <2>2
<1>18. ASSUME NEW v \in State, Elsewhere(v) PROVE Recorded'
  BY <1>18, <1>s, RecordedQuiet DEF Elsewhere, fileVars
<1>19. ASSUME NEW c \in Callers, Invalidate(c) PROVE Recorded'
  <2>1. call'[c].pc = "refresh" /\ \A d \in Callers \ {c} : call'[d] = call[d]
    BY <1>0, <1>19 DEF Types, Invalidate, Calls
  <2>. QED
    BY <1>19, <1>s, <2>1, RecordedQuiet DEF Invalidate, fileVars, Changing
<1>20. ASSUME NEW c \in Callers, StartWait(c) PROVE Recorded'
  <2>1. CASE event
    BY <1>20, <1>s, <2>1, RecordedReturn DEF StartWait, fileVars
  <2>2. CASE ~event
    <3>1. call'[c].pc = "waiting" /\ \A d \in Callers \ {c} : call'[d] = call[d]
      BY <1>0, <1>20, <2>2 DEF Types, StartWait, Goto, Calls
    <3>. QED
      BY <1>20, <1>s, <3>1, RecordedQuiet DEF StartWait, fileVars, Changing
  <2>. QED
    BY <2>1, <2>2
<1>21. CASE Ensure
  BY <1>21, <1>s, RecordedQuiet DEF Ensure, fileVars, callVars
<1>22. ASSUME NEW w \in Loaders, LoaderGoes(w) PROVE Recorded'
  <2>1. CASE Fill(w)
    <3>1. \A d \in Callers : \/ call'[d] = call[d]
                             \/ call'[d].pc = "idle" /\ call[d].pc = "waiting"
      BY <1>0, <2>1 DEF Types, Fill
    <3>. QED
      BY <1>s, <2>1, <3>1, RecordedQuiet DEF Fill, fileVars, Changing
  <2>2. CASE UNCHANGED <<fileVars, callVars>>
    BY <1>s, <2>2, RecordedQuiet DEF fileVars, callVars
  <2>. QED
    BY <1>22, <2>1, <2>2 DEF LoaderGoes, Target, Files, Config, LoadFails, LoaderStep, LoadAgain
<1>23. CASE UNCHANGED vars
  BY <1>23, <1>s, RecordedQuiet DEF vars, fileVars, callVars
<1>. QED
  BY <1>1, <1>2, <1>3, <1>4, <1>5, <1>6, <1>7, <1>8, <1>9, <1>10, <1>f, <1>11, <1>12, <1>13,
     <1>15, <1>16, <1>17, <1>18, <1>19, <1>20, <1>21, <1>22, <1>23
     DEF Next, Call, Go, Toggle, Servers, Setting

-----------------------------------------------------------------------------
(* The list of enabled skills.                                             *)

Dirt(c) ==
  \/ call[c].pc = "invalidate"
  \/ call[c].pc = "record" /\ call[c].op \notin Removing /\ ~call[c].left
  \/ At(c, {"config", "reload"}, {"toggle"})

LEMMA DirtyParts ==
  /\ Dirty <=> \E c \in Callers : Dirt(c)
  /\ Dirty' <=> \E c \in Callers : Dirt(c)'
  BY DEF Dirty, Dirt

(* A step that leaves the list, the file and the meaning of the settings   *)
(* alone, and forgets no announcement.                                     *)
LEMMA CurrentFrame ==
  ASSUME LoadCurrent, UNCHANGED <<cacheVars, file>>, silent => silent',
         Meant' = Meant, Whole => Whole', Dirty => Dirty'
  PROVE  LoadCurrent'
  BY DEF LoadCurrent, cacheVars

LEMMA CurrentQuiet ==
  ASSUME LoadCurrent, UNCHANGED <<cacheVars, file, configVars>>, silent => silent',
         \A d \in Callers : \/ call'[d] = call[d]
                            \/ call[d].pc # "config" /\ (Dirt(d) => Dirt(d)' \/ silent')
  PROVE  LoadCurrent'
<1>1. Meant' = Meant
  BY DEF Meant, configVars
<1>2. Whole => Whole'
  BY DEF Whole, configVars
<1>3. Dirty => Dirty' \/ silent'
  BY DirtyParts DEF Dirt, At
<1>4. CASE silent'
  BY <1>4 DEF LoadCurrent
<1>5. CASE ~silent'
  BY <1>1, <1>2, <1>3, <1>5, CurrentFrame
<1>. QED
  BY <1>4, <1>5

LEMMA CurrentReturn ==
  ASSUME TypeOK, LoadCurrent, NEW c \in Callers, Return(c), call[c].pc # "config",
         UNCHANGED <<cacheVars, file, configVars>>, silent => silent', Dirt(c) => silent'
  PROVE  LoadCurrent'
  BY ReturnFacts, CurrentQuiet

(* A change of what the list is made of is to be announced from then on.   *)
LEMMA CurrentDirty ==
  ASSUME NEW c \in Callers, Dirt(c)' PROVE LoadCurrent'
  BY DirtyParts DEF LoadCurrent

LEMMA CurrentInit == Init => LoadCurrent /\ Versions
  BY Constants DEF Init, LoadCurrent, Versions, Fresh, NoCall, Unset

LEMMA CurrentBegin ==
  ASSUME TypeOK, LoadCurrent, NEW c \in Callers, NEW o \in Tool \cup Request, NEW p \in Places,
         NEW text \in Content \cup {None}, NEW base \in Content \cup {None},
         Begin(c, o, p, text, base)
  PROVE  LoadCurrent'
<1>1. /\ \A d \in Callers \ {c} : call'[d] = call[d]
      /\ call[c].pc = "idle" /\ UNCHANGED <<cacheVars, configVars, silent, file>>
  BY BeginFacts
<1>. QED
  BY <1>1, CurrentQuiet DEF Dirt, At

LEMMA CurrentInv ==
  ASSUME TypeOK, TypeOK', Placed, Placed', LoadCurrent, Versions, [Next]_vars PROVE LoadCurrent'
<1>0. Types
  BY TypeParts
<1>. USE Constants
<1>1. ASSUME NEW c \in Callers, NEW o \in Tool, BeginTool(c, o) PROVE LoadCurrent'
  <2>1. CASE o = "erase"
    <3>1. Begin(c, o, "record", None, file)
      BY <1>1, <2>1 DEF BeginTool
    <3>. QED
      BY <1>0, <3>1, CurrentBegin DEF Types, Places
  <2>2. CASE o # "erase"
    <3>0. started + 1 \in Content
      BY <1>0, <1>1 DEF Types, BeginTool, Begin, Content
    <3>1. PICK base \in Content \cup {None} : Begin(c, o, "scan", started + 1, base)
      BY <1>0, <1>1, <2>2 DEF Types, BeginTool
    <3>2. "scan" \in Places
      BY DEF Places
    <3>. QED
      BY <3>0, <3>1, <3>2, CurrentBegin
  <2>. QED
    BY <2>1, <2>2
<1>2. ASSUME NEW c \in Callers, NEW o \in Request, BeginRequest(c, o) PROVE LoadCurrent'
  <2>1. CASE o = "remove"
    <3>1. Begin(c, o, "record", None, file)
      BY <1>2, <2>1 DEF BeginRequest
    <3>. QED
      BY <1>0, <3>1, CurrentBegin DEF Types, Places
  <2>2. CASE o # "remove"
    <3>0. started + 1 \in Content
      BY <1>0, <1>2 DEF Types, BeginRequest, Begin, Content
    <3>1. Begin(c, o, "scan", started + 1, None)
      BY <1>2, <2>2 DEF BeginRequest
    <3>. QED
      BY <3>0, <3>1, CurrentBegin DEF Places
  <2>. QED
    BY <2>1, <2>2
<1>3. ASSUME NEW c \in Callers, NEW i \in DOMAIN history, BeginRollback(c, i) PROVE LoadCurrent'
  <2>1. history[i].prev \in Content
    <3>1. history[i] \in Record
      BY <1>0, ElementOfSeq, LenProperties DEF Types
    <3>. QED
      BY <1>3, <3>1 DEF Record, BeginRollback
  <2>2. Begin(c, "rollback", "scan", history[i].prev, None)
    BY <1>3 DEF BeginRollback
  <2>. QED
    BY <2>1, <2>2, CurrentBegin DEF Places, Request
<1>4. ASSUME NEW c \in Callers, Approve(c) PROVE LoadCurrent'
  <2>1. \A d \in Callers \ {c} : call'[d] = call[d]
    BY <1>0, <1>4 DEF Types, Approve, Goto
  <2>. QED
    BY <1>4, <2>1, CurrentQuiet DEF Approve, Dirt, At, fileVars
<1>5. ASSUME NEW c \in Callers, Block(c) PROVE LoadCurrent'
  BY <1>5, CurrentReturn DEF Block, Dirt, At
<1>6. ASSUME NEW c \in Callers, Read(c) PROVE LoadCurrent'
  <2>1. \A d \in Callers \ {c} : call'[d] = call[d]
    BY <1>0, <1>6 DEF Types, Read, Return
  <2>. QED
    BY <1>6, <2>1, CurrentQuiet DEF Read, Dirt, At, fileVars
<1>7. ASSUME NEW c \in Callers, Write(c) PROVE LoadCurrent'
  <2>1. CASE call[c].left
    BY <1>7, <2>1 DEF Write, LoadCurrent
  <2>2. CASE ~call[c].left
    <3>1. call'[c] = [call[c] EXCEPT !.pc = "record"] /\ call[c] \in Calls
      BY <1>0, <1>7, <2>2, GotoFacts DEF Write, GoesOn, Places, Types
    <3>2. call[c].op \notin Removing
      BY <1>7 DEF Write, Placed, OpFits, Removing
    <3>3. call'[c].pc = "record" /\ call'[c].op \notin Removing /\ ~call'[c].left
      BY <2>2, <3>1, <3>2 DEF Calls
    <3>. QED
      BY <3>3, CurrentDirty DEF Dirt
  <2>. QED
    BY <2>1, <2>2
<1>8. ASSUME NEW c \in Callers, AppendHistory(c) PROVE LoadCurrent'
  <2>1. CASE call[c].op \in Removing
    <3>1. \A d \in Callers \ {c} : call'[d] = call[d]
      BY <1>0, <1>8, <2>1 DEF Types, AppendHistory, Goto
    <3>. QED
      BY <1>8, <2>1, <3>1, CurrentQuiet DEF AppendHistory, Dirt, At
  <2>2. CASE call[c].op \notin Removing /\ ~call[c].left
    <3>1. call'[c].pc = "invalidate"
      BY <1>8, <2>2, AnnounceFacts DEF AppendHistory, GoesOn
    <3>. QED
      BY <3>1, CurrentDirty DEF Dirt
  <2>3. CASE call[c].op \notin Removing /\ call[c].left
    BY <1>8, <2>3, CurrentReturn DEF AppendHistory, GoesOn, Dirt, At
  <2>. QED
    BY <2>1, <2>2, <2>3
<1>9. ASSUME NEW c \in Callers, AppendFails(c) PROVE LoadCurrent'
  <2>1. CASE call[c].op \in Removing
    <3>1. \A d \in Callers \ {c} : call'[d] = call[d]
      BY <1>0, <1>9, <2>1 DEF Types, AppendFails, Goto, Return
    <3>. QED
      BY <1>9, <2>1, <3>1, CurrentQuiet DEF AppendFails, Dirt, At
  <2>2. CASE call[c].op \notin Removing
    BY <1>9, <2>2 DEF AppendFails, LoadCurrent
  <2>. QED
    BY <2>1, <2>2
<1>10. ASSUME NEW c \in Callers, Unlink(c) PROVE LoadCurrent'
  <2>1. CASE call[c].left
    BY <1>10, <2>1 DEF Unlink, LoadCurrent
  <2>2. CASE ~call[c].left
    <3>1. call'[c].pc = "invalidate"
      BY <1>10, <2>2, AnnounceFacts DEF Unlink, GoesOn
    <3>. QED
      BY <3>1, CurrentDirty DEF Dirt
  <2>. QED
    BY <2>1, <2>2
<1>f. ASSUME NEW c \in Callers, UnlinkFails(c) PROVE LoadCurrent'
  <2>1. CASE UNCHANGED <<file, silent>>
    BY <1>f, <2>1, CurrentReturn DEF UnlinkFails, Dirt, At
  <2>2. CASE silent'
    BY <2>2 DEF LoadCurrent
  <2>. QED
    BY <1>f, <2>1, <2>2 DEF UnlinkFails
<1>11. ASSUME NEW c \in Callers, Install(c) PROVE LoadCurrent'
  <2>1. CASE file # None
    BY <1>11, <2>1, CurrentReturn DEF Install, Dirt, At
  <2>2. CASE file = None
    <3>1. call'[c].pc = "invalidate"
      <4>1. ~call[c].left
        BY <1>11 DEF Install, Placed, OpFits, At
      <4>. QED
        BY <1>11, <2>2, <4>1, AnnounceFacts DEF Install
    <3>. QED
      BY <3>1, CurrentDirty DEF Dirt
  <2>. QED
    BY <2>1, <2>2
<1>12. ASSUME NEW c \in Callers, Cancel(c) PROVE LoadCurrent'
  <2>1. call[c].pc \notin {"config", "reload"}
    BY <1>12 DEF Cancel, Placed, OpFits, Tool, Setting
  <2>2. Dirt(c) => silent'
    BY <1>12, <2>1 DEF Cancel, Dirt, At, Removing, Tool
  <2>3. silent => silent'
    BY <1>12 DEF Cancel
  <2>4. CASE Return(c)
    BY <1>12, <2>1, <2>2, <2>3, <2>4, CurrentReturn DEF Cancel, fileVars
  <2>5. CASE call' = [call EXCEPT ![c].left = TRUE]
    <3>1. \A d \in Callers \ {c} : call'[d] = call[d]
      BY <1>0, <2>5 DEF Types
    <3>. QED
      BY <1>12, <2>1, <2>2, <2>3, <3>1, CurrentQuiet DEF Cancel, fileVars
  <2>. QED
    BY <1>12, <2>4, <2>5 DEF Cancel
<1>13. ASSUME NEW c \in Callers, NEW v \in State, Toggle(c, v) PROVE LoadCurrent'
  <2>1. call'[c].pc = "config" /\ call'[c].op = "toggle"
    BY <1>0, <1>13 DEF Types, Toggle, BeginSetting, NoCall
  <2>. QED
    BY <2>1, CurrentDirty DEF Dirt, At
<1>14. ASSUME NEW c \in Callers, Servers(c) PROVE LoadCurrent'
  <2>1. /\ call[c].pc = "idle" /\ call'[c].pc = "config"
        /\ \A d \in Callers \ {c} : call'[d] = call[d]
    BY <1>0, <1>14 DEF Types, Servers, BeginSetting, Free, NoCall
  <2>2. Dirty => Dirty'
    BY <2>1, DirtyParts DEF Dirt, At
  <2>3. Whole'
    BY <2>1 DEF Whole
  <2>4. CASE settings # config
    BY <1>14, <2>4 DEF Servers, LoadCurrent
  <2>5. CASE settings = config
    <3>1. Meant' = Meant
      BY <1>0, <1>14, <2>5 DEF Types, Servers, BeginSetting, Meant, State, Torn
    <3>. QED
      BY <1>14, <2>2, <2>3, <3>1, CurrentFrame DEF Servers, BeginSetting, fileVars
  <2>. QED
    BY <2>4, <2>5
<1>15. ASSUME NEW c \in Callers, WriteConfig(c) PROVE LoadCurrent'
  <2>1. /\ call'[c].pc = "reload" /\ call'[c].op = call[c].op
        /\ \A d \in Callers \ {c} : call'[d] = call[d]
    <3>1. call'[c] = [call[c] EXCEPT !.pc = "reload"] /\ call[c] \in Calls
      BY <1>0, <1>15, GotoFacts DEF WriteConfig, Places, Types
    <3>. QED
      BY <1>15, <3>1, GotoFacts DEF WriteConfig, Places, Calls
  <2>2. Dirty => Dirty'
    BY <1>15, <2>1, DirtyParts DEF Dirt, At, WriteConfig
  <2>3. Whole'
    BY <1>0, <1>15 DEF Whole, WriteConfig, Types, State, Torn
  <2>4. Meant' = Meant
    BY <1>0, <1>15 DEF WriteConfig, Placed, ConfigTorn, Meant, Types, State, Torn
  <2>. QED
    BY <1>15, <2>2, <2>3, <2>4, CurrentFrame DEF WriteConfig, fileVars
<1>16. ASSUME NEW c \in Callers, WriteFails(c) PROVE LoadCurrent'
  BY <1>16 DEF WriteFails, LoadCurrent
<1>17. ASSUME NEW c \in Callers, Reload(c) PROVE LoadCurrent'
  <2>1. CASE call[c].op = "toggle"
    <3>1. call'[c].pc = "invalidate"
      <4>1. ~call[c].left
        BY <1>17 DEF Reload, Placed, OpFits, At
      <4>. QED
        BY <1>17, <2>1, <4>1, AnnounceFacts DEF Reload
    <3>. QED
      BY <3>1, CurrentDirty DEF Dirt
  <2>2. CASE call[c].op # "toggle"
    <3>1. call[c].pc = "reload" /\ \A d \in Callers \ {c} : call'[d] = call[d]
      BY <1>17, <2>2, ReturnFacts DEF Reload
    <3>2. Dirty => Dirty'
      BY <2>2, <3>1, DirtyParts DEF Dirt, At
    <3>3. config # Torn
      BY <1>17 DEF Reload, Placed, ConfigTorn
    <3>4. Whole' /\ Meant' = Meant
      BY <1>17, <3>3 DEF Reload, Whole, Meant
    <3>. QED
      BY <1>17, <3>2, <3>4, CurrentFrame DEF Reload, fileVars
  <2>. QED
    BY <2>1, <2>2
<1>18. ASSUME NEW v \in State, Elsewhere(v) PROVE LoadCurrent'
  BY <1>18 DEF Elsewhere, LoadCurrent
<1>19. ASSUME NEW c \in Callers, Invalidate(c) PROVE LoadCurrent'
  <2>1. \A w \in Loaders : loader'[w].target = loader[w].target
    <3>1. \A w \in Loaders : loader[w] \in Loads /\
            (loader'[w] = loader[w] \/ loader'[w] = [loader[w] EXCEPT !.at = "target"])
      BY <1>0, <1>19, LoadFacts DEF Invalidate, Types
    <3>. QED
      BY <3>1 DEF Loads
  <2>2. \A w \in Loaders : loader'[w].target # version'
    <3>1. \A w \in Loaders : loader[w].target <= version /\ loader[w].target \in Nat
      BY <1>0 DEF Versions, Types, Loads
    <3>. QED
      BY <1>0, <1>19, <2>1, <3>1 DEF Types, Invalidate
  <2>3. cache' = Unset
    BY <1>19 DEF Invalidate
  <2>. QED
    BY <2>2, <2>3 DEF LoadCurrent
<1>20. ASSUME NEW c \in Callers, StartWait(c) PROVE LoadCurrent'
  <2>1. \A d \in Callers \ {c} : call'[d] = call[d]
    BY <1>0, <1>20 DEF Types, StartWait, Return, Goto
  <2>. QED
    BY <1>20, <2>1, CurrentQuiet DEF StartWait, Dirt, At, fileVars
<1>m. UNCHANGED <<configVars, callVars>> => (Dirty' <=> Dirty) /\ Meant' = Meant /\ (Whole' <=> Whole)
  BY DEF Dirty, Meant, Whole, At, configVars, callVars
<1>21. CASE Ensure
  <2>1. \A w \in Loaders : loader'[w] = loader[w] \/ loader'[w].at = "target"
    <3>1. \A w \in Loaders : loader[w] \in Loads /\
            (loader'[w] = loader[w] \/ loader'[w] = [loader[w] EXCEPT !.at = "target"])
      BY <1>0, <1>21, LoadFacts DEF Ensure, Types
    <3>. QED
      BY <3>1 DEF Loads
  <2>. QED
    BY <1>21, <1>m, <2>1 DEF Ensure, LoadCurrent, fileVars
<1>22. ASSUME NEW w \in Loaders, LoaderGoes(w) PROVE LoadCurrent'
  <2>1. loader[w].at # "idle" /\ active /\ cache = Unset
    BY <1>0, <1>22 DEF Types, OneLoads, Versions, LoaderGoes, Target, Files, Config, LoadFails,
                       LoaderStep, Fill, LoadAgain
  <2>2. \A v \in Loaders \ {w} : loader[v].at = "idle"
    BY <1>0, <2>1 DEF Types, OneLoads
  <2>3. CASE Target(w)
    <3>1. loader'[w].at = "files" /\ \A v \in Loaders \ {w} : loader'[v] = loader[v]
      BY <1>0, <2>3 DEF Types, Target, Fresh
    <3>. QED
      BY <2>1, <2>2, <2>3, <3>1 DEF Target, LoadCurrent
  <2>4. CASE Files(w)
    <3>1. /\ loader'[w].at = "config" /\ loader'[w].found = file
          /\ \A v \in Loaders \ {w} : loader'[v] = loader[v]
      BY <1>0, <2>4 DEF Types, Loads, Files, LoaderStep
    <3>. QED
      BY <2>1, <2>2, <2>4, <3>1 DEF Files, LoaderStep, LoadCurrent, fileVars
  <2>5. CASE Config(w)
    <3>1. /\ loader[w].at = "config" /\ loader'[w].at = "fill" /\ loader'[w].found = loader[w].found
          /\ loader'[w].on = (config # "off") /\ loader'[w].target = loader[w].target
          /\ \A v \in Loaders \ {w} : loader'[v] = loader[v]
      BY <1>0, <2>5 DEF Types, Loads, Config, LoaderStep
    <3>2. ~misread' => Meant' = config /\ Whole'
      BY <2>5 DEF Config, LoaderStep, Meant, Whole, configVars
    <3>. QED
      BY <1>m, <2>1, <2>2, <2>5, <3>1, <3>2 DEF Config, LoaderStep, LoadCurrent, fileVars
  <2>6. CASE LoadFails(w)
    <3>1. /\ loader'[w].at = "fill" /\ misread'
          /\ \A v \in Loaders \ {w} : loader'[v] = loader[v]
      BY <1>0, <2>6 DEF Types, Loads, LoadFails, LoaderStep
    <3>. QED
      BY <2>1, <2>2, <2>6, <3>1 DEF LoadFails, LoaderStep, LoadCurrent
  <2>7. CASE Fill(w)
    <3>1. \A v \in Loaders : loader'[v].at = "idle"
      BY <1>0, <2>2, <2>7 DEF Types, Fill
    <3>2. \A d \in Callers : \/ call'[d] = call[d]
                             \/ call'[d].pc = "idle" /\ call[d].pc = "waiting"
      BY <1>0, <2>7 DEF Types, Fill
    <3>3. Dirty => Dirty'
      BY <3>2, DirtyParts DEF Dirt, At
    <3>4. Meant' = Meant /\ (Whole => Whole')
      BY <2>7, <3>2 DEF Fill, Meant, Whole, configVars
    <3>. QED
      BY <2>7, <3>1, <3>3, <3>4 DEF Fill, LoadCurrent, fileVars
  <2>8. CASE LoadAgain(w)
    <3>1. loader'[w].at = "target" /\ \A v \in Loaders \ {w} : loader'[v] = loader[v]
      BY <1>0, <2>8 DEF Types, LoadAgain, Fresh
    <3>. QED
      BY <2>2, <2>8, <3>1 DEF LoadAgain, LoadCurrent
  <2>. QED
    BY <1>22, <2>3, <2>4, <2>5, <2>6, <2>7, <2>8 DEF LoaderGoes
<1>23. CASE UNCHANGED vars
  BY <1>23, <1>m DEF vars, fileVars, cacheVars, LoadCurrent
<1>. QED
  BY <1>1, <1>2, <1>3, <1>4, <1>5, <1>6, <1>7, <1>8, <1>9, <1>10, <1>f, <1>11, <1>12, <1>13,
     <1>14, <1>15, <1>16, <1>17, <1>18, <1>19, <1>20, <1>21, <1>22, <1>23
     DEF Next, Call, Go

(* A step of a call leaves the list alone and drops tickets only.          *)
LEMMA VersionsQuiet ==
  ASSUME TypeOK, Versions, UNCHANGED cacheVars,
         \A d \in Callers : call'[d].ticket \in {call[d].ticket, 0}
  PROVE  Versions'
  BY TypeParts DEF Types, Versions, cacheVars

LEMMA VersionsInv ==
  ASSUME TypeOK, Versions, [Next]_vars PROVE Versions'
<1>0. Types
  BY TypeParts
<1>n. NoCall.ticket = 0
  BY DEF NoCall
<1>. USE Constants
<1>1. ASSUME NEW c \in Callers, NEW o \in Tool \cup Request, NEW p, NEW text, NEW base,
             Begin(c, o, p, text, base)
      PROVE  Versions'
  <2>1. \A d \in Callers : call'[d].ticket \in {call[d].ticket, 0}
    BY <1>0, <1>1 DEF Types, Begin
  <2>. QED
    BY <1>1, <2>1, VersionsQuiet DEF Begin
<1>2. ASSUME NEW c \in Callers, Call(c) PROVE Versions'
  <2>1. ASSUME NEW o \in Setting, BeginSetting(c, o) PROVE Versions'
    <3>1. \A d \in Callers : call'[d].ticket \in {call[d].ticket, 0}
      BY <1>0, <2>1 DEF Types, BeginSetting, NoCall
    <3>. QED
      BY <2>1, <3>1, VersionsQuiet DEF BeginSetting
  <2>2. ASSUME NEW o \in Tool, BeginTool(c, o) PROVE Versions'
    BY <1>1, <2>2 DEF BeginTool
  <2>3. ASSUME NEW o \in Request, BeginRequest(c, o) PROVE Versions'
    BY <1>1, <2>3 DEF BeginRequest
  <2>4. ASSUME NEW i \in DOMAIN history, BeginRollback(c, i) PROVE Versions'
    BY <1>1, <2>4 DEF BeginRollback, Request
  <2>. QED
    BY <1>2, <2>1, <2>2, <2>3, <2>4 DEF Call, Toggle, Servers, Setting
<1>3. ASSUME NEW c \in Callers, Go(c) \/ Cancel(c), ~Invalidate(c) PROVE Versions'
  <2>1. UNCHANGED cacheVars
    BY <1>3 DEF Go, Cancel, Approve, Block, Read, Write, AppendHistory, AppendFails, Unlink,
                UnlinkFails, Install, WriteConfig, WriteFails, Reload, StartWait
  <2>2. \/ Return(c) \/ Announce(c) \/ \E place : Goto(c, place)
        \/ call' = [call EXCEPT ![c].pc = "write", ![c].base = file]
        \/ call' = [call EXCEPT ![c].left = TRUE]
    BY <1>3 DEF GoesOn, Go, Cancel, Approve, Block, Read, Write, AppendHistory, AppendFails, Unlink,
                UnlinkFails, Install, WriteConfig, WriteFails, Reload, StartWait
  <2>3. \A d \in Callers : call'[d].ticket \in {call[d].ticket, 0}
    <3>1. CASE Return(c)
      BY <1>0, <1>n, <3>1 DEF Types, Return
    <3>2. CASE Announce(c)
      BY <1>0, <3>2 DEF Types, Announce, NoCall
    <3>3. CASE \E place : Goto(c, place)
      BY <1>0, <3>3 DEF Types, Calls, Goto
    <3>4. CASE call' = [call EXCEPT ![c].pc = "write", ![c].base = file]
      BY <1>0, <3>4 DEF Types, Calls
    <3>5. CASE call' = [call EXCEPT ![c].left = TRUE]
      BY <1>0, <3>5 DEF Types, Calls
    <3>. QED
      BY <2>2, <3>1, <3>2, <3>3, <3>4, <3>5
  <2>. QED
    BY <2>1, <2>3, VersionsQuiet
<1>4. ASSUME NEW c \in Callers, Invalidate(c) PROVE Versions'
  <2>1. \A w \in Loaders : loader'[w].target = loader[w].target
    <3>1. \A w \in Loaders : loader[w] \in Loads /\
            (loader'[w] = loader[w] \/ loader'[w] = [loader[w] EXCEPT !.at = "target"])
      BY <1>0, <1>4, LoadFacts DEF Invalidate, Types
    <3>. QED
      BY <3>1 DEF Loads
  <2>2. \A d \in Callers : call'[d].ticket \in {call[d].ticket, version + 1}
    BY <1>0, <1>4 DEF Types, Calls, Invalidate
  <2>3. \A d \in Callers : call[d].ticket \in Nat /\ call[d].ticket <= version
    BY <1>0 DEF Types, Calls, Versions
  <2>4. \A w \in Loaders : loader[w].target \in Nat /\ loader[w].target <= version
    BY <1>0 DEF Types, Loads, Versions
  <2>5. version' = version + 1 /\ version \in Nat /\ cache' = Unset /\ event' = FALSE
    BY <1>0, <1>4 DEF Types, Invalidate
  <2>. QED
    BY <2>1, <2>2, <2>3, <2>4, <2>5 DEF Versions
<1>5. CASE Ensure
  <2>1. \A w \in Loaders : loader'[w].target = loader[w].target
    <3>1. \A w \in Loaders : loader[w] \in Loads /\
            (loader'[w] = loader[w] \/ loader'[w] = [loader[w] EXCEPT !.at = "target"])
      BY <1>0, <1>5, LoadFacts DEF Ensure, Types
    <3>. QED
      BY <3>1 DEF Loads
  <2>. QED
    BY <1>5, <2>1 DEF Ensure, Versions, callVars
<1>6. ASSUME NEW w \in Loaders, LoaderGoes(w) PROVE Versions'
  <2>1. \A v \in Loaders : loader'[v].target \in {loader[v].target, version, 0}
    <3>0. loader \in [Loaders -> Loads]
      BY <1>0 DEF Types
    <3>1. CASE Target(w) \/ Fill(w) \/ LoadAgain(w)
      <4>0. ASSUME NEW n, n.target \in {version, 0}, loader' = [loader EXCEPT ![w] = n]
            PROVE  \A v \in Loaders : loader'[v].target \in {loader[v].target, version, 0}
        BY <3>0, <4>0
      <4>1. \A v \in Loaders : loader'[v].target \in {loader[v].target, version, 0}
        <5>1. CASE Target(w)
          <6>1. [Fresh EXCEPT !.at = "files", !.target = version].target = version
            BY DEF Fresh
          <6>. QED
            BY <4>0, <5>1, <6>1 DEF Target
        <5>2. CASE Fill(w)
          <6>1. Fresh.target = 0
            BY DEF Fresh
          <6>. QED
            BY <4>0, <5>2, <6>1 DEF Fill
        <5>3. CASE LoadAgain(w)
          <6>1. [Fresh EXCEPT !.at = "target"].target = 0
            BY DEF Fresh
          <6>. QED
            BY <4>0, <5>3, <6>1 DEF LoadAgain
        <5>. QED
          BY <3>1, <5>1, <5>2, <5>3
      <4>. QED
        BY <4>1
    <3>2. ASSUME NEW from, NEW to, NEW found, NEW on, LoaderStep(w, from, to, found, on)
          PROVE  \A v \in Loaders : loader'[v].target = loader[v].target
      BY <1>0, <3>2 DEF Types, Loads, LoaderStep
    <3>. QED
      BY <1>6, <3>1, <3>2 DEF LoaderGoes, Files, Config, LoadFails
  <2>2. \A v \in Loaders : loader'[v].target <= version
    BY <1>0, <2>1 DEF Types, Loads, Versions
  <2>3. CASE Fill(w)
    <3>1. \A d \in Callers : call'[d].ticket \in {call[d].ticket, 0}
      BY <1>0, <1>n, <2>3 DEF Types, Fill
    <3>. QED
      BY <1>0, <2>2, <2>3, <3>1 DEF Types, Fill, Versions
  <2>4. CASE UNCHANGED <<callVars, cache, version, active, event, filled>>
    BY <2>2, <2>4 DEF Versions, callVars
  <2>5. CASE LoadAgain(w)
    BY <2>2, <2>5 DEF LoadAgain, Versions, callVars
  <2>. QED
    BY <1>6, <2>3, <2>4, <2>5 DEF LoaderGoes, Target, Files, Config, LoadFails, LoaderStep
<1>7. CASE UNCHANGED vars
  BY <1>7, VersionsQuiet DEF vars, callVars
<1>8. ASSUME NEW v \in State, Elsewhere(v) PROVE Versions'
  BY <1>8, VersionsQuiet DEF Elsewhere
<1>. QED
  BY <1>2, <1>3, <1>4, <1>5, <1>6, <1>7, <1>8 DEF Next, Go

-----------------------------------------------------------------------------
(* The inductive invariant, and what follows from it.                      *)

(* Whatever callers and loading threads do in whatever order, and however  *)
(* many of them there are: types, the lock, the event loop and the one     *)
(* loading thread are kept, a change knows what it replaces, and the list  *)
(* is that of the files or a change is still to be announced               *)
(* (agents/lead_agent/prompt.py, skill_manage_tool.py, routers/skills.py). *)
THEOREM Invariance == Spec => []IndInv
<1>1. Init => IndInv
  BY TypeInit, PlacedInit, RecordedInit, CurrentInit DEF IndInv, Placed, Recorded
<1>2. IndInv /\ [Next]_vars => IndInv'
  <2>. SUFFICES ASSUME IndInv, [Next]_vars PROVE IndInv'
    OBVIOUS
  <2>1. TypeOK /\ Placed /\ Recorded /\ LoadCurrent /\ Versions
    BY DEF IndInv, Placed, Recorded
  <2>2. TypeOK'
    BY <2>1, TypeInv DEF Placed
  <2>3. Placed'
    BY <2>1, <2>2, PlacedInv
  <2>4. Recorded'
    BY <2>1, RecordedInv
  <2>5. LoadCurrent' /\ Versions'
    BY <2>1, <2>2, <2>3, CurrentInv, VersionsInv
  <2>. QED
    BY <2>2, <2>3, <2>4, <2>5 DEF IndInv, Placed, Recorded
<1>. QED
  BY <1>1, <1>2, PTL DEF Spec

(* Every record of the history tells what its change has replaced, and     *)
(* with no change under way the last one made the file what it is, as long *)
(* as no tool call and no request change the skill at a time: the lock     *)
(* serves tool calls only (skills/manager.py, routers/skills.py).          *)
THEOREM HistoryCorrect == Spec => []HistoryTrue
<1>1. IndInv => HistoryTrue
  BY DEF IndInv, HistoryKnown, HistoryTrue, Unlinking, Changing
<1>. QED
  BY <1>1, Invariance, PTL

(* A list of enabled skills that was filled is what a load would give now, *)
(* once all changes are announced (_invalidate_enabled_skills_cache and    *)
(* _refresh_enabled_skills_cache_worker of prompt.py).                     *)
THEOREM CacheCorrect == Spec => []CacheCurrent
<1>1. IndInv => CacheCurrent
  <2>. SUFFICES ASSUME IndInv, cache # Unset, ~silent, ~misread,
                       \A c \in Callers : call[c].pc \notin
                         Changing \cup {"config", "reload", "invalidate"}
                PROVE  cache = IF config # "off" THEN file ELSE None
    BY DEF CacheCurrent
  <2>1. ~Dirty
    BY DEF Dirty, At, Changing
  <2>2. cache = (IF Meant # "off" THEN file ELSE None) /\ Whole
    BY <2>1 DEF IndInv, LoadCurrent
  <2>3. config # Torn
    BY <2>2 DEF Whole
  <2>. QED
    BY <2>2, <2>3 DEF Meant
<1>. QED
  BY <1>1, Invariance, PTL

(* A refresh returns only when the list was loaded after the change it     *)
(* announces, although all callers share one event and anyone clears it    *)
(* (refresh_skills_system_prompt_cache_async of prompt.py).                *)
THEOREM FreshCorrect == Spec => ReturnsFresh
<1>. DEFINE Fresher == \A c \in Callers : call[c].pc \in {"refresh", "waiting"} /\ call'[c].pc = "idle"
                                          /\ ~Cancel(c) => filled' >= call[c].ticket
<1>1. IndInv /\ [Next]_vars => [Fresher]_vars
  <2>. SUFFICES ASSUME IndInv, Next, NEW c \in Callers, call[c].pc \in {"refresh", "waiting"},
                       call'[c].pc = "idle", ~Cancel(c)
                PROVE  filled' >= call[c].ticket
    OBVIOUS
  <2>0. Types /\ call[c].ticket <= version /\ (event => filled = version)
    BY TypeParts DEF IndInv, Versions
  <2>1. ASSUME NEW d \in Callers, d # c, Call(d) \/ Go(d) \/ Cancel(d) PROVE call'[c] = call[c]
    <3>1. \E new : call' = [call EXCEPT ![d] = new]
      <4>1. CASE Call(d)
        BY <4>1 DEF Call, BeginTool, BeginRequest, BeginRollback, Begin, Toggle, Servers, BeginSetting
      <4>2. CASE Go(d) \/ Cancel(d)
        <5>1. \/ Return(d) \/ Announce(d) \/ \E place : Goto(d, place)
              \/ call' = [call EXCEPT ![d].pc = "write", ![d].base = file]
              \/ call' = [call EXCEPT ![d].pc = "refresh", ![d].ticket = version + 1]
              \/ call' = [call EXCEPT ![d].left = TRUE]
          BY <4>2 DEF GoesOn, Go, Cancel, Approve, Block, Read, Write, AppendHistory, AppendFails,
                      Unlink, UnlinkFails, Install, WriteConfig, WriteFails, Reload, Invalidate, StartWait
        <5>. QED
          BY <2>0, <5>1 DEF Types, Return, Announce, Goto
      <4>. QED
        BY <2>1, <4>1, <4>2
    <3>. QED
      BY <2>0, <2>1, <3>1 DEF Types
  <2>2. ~Call(c)
    BY DEF Call, BeginTool, BeginRequest, BeginRollback, Begin, Toggle, Servers, BeginSetting, Free
  <2>3. Go(c) => StartWait(c)
    BY DEF Go, Approve, Block, Read, Write, AppendHistory, AppendFails, Unlink, UnlinkFails,
           Install, WriteConfig, WriteFails, Reload, Invalidate
  <2>4. CASE StartWait(c)
    <3>1. CASE event
      BY <2>0, <2>4, <3>1 DEF Types, Calls, StartWait, cacheVars
    <3>2. CASE ~event
      BY <2>0, <2>4, <3>2 DEF Types, Calls, StartWait, Goto
    <3>. QED
      BY <3>1, <3>2
  <2>5. CASE \E w \in Loaders : Fill(w)
    BY <2>0, <2>5 DEF Types, Calls, Fill
  <2>6. CASE UNCHANGED callVars
    BY <2>6 DEF callVars
  <2>7. CASE \E v \in State : Elsewhere(v)
    BY <2>7 DEF Elsewhere
  <2>. QED
    BY <2>1, <2>2, <2>3, <2>4, <2>5, <2>6, <2>7
       DEF Next, LoaderGoes, Target, Files, Config, LoadFails, LoaderStep, LoadAgain, Ensure
<1>. QED
  BY <1>1, Invariance, PTL DEF Spec, ReturnsFresh
=============================================================================

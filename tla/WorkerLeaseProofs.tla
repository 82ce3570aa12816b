------------------------- MODULE WorkerLeaseProofs -------------------------
(***************************************************************************)
(* TLAPS proofs about WorkerLease, for any number of processes, worker ids, *)
(* statements and mints: type correctness, the fence, and, as long as the   *)
(* wall clocks respect SkewBound, that ids are unique and increase per      *)
(* worker id.                                                               *)
(***************************************************************************)
EXTENDS WorkerLease, TLAPS

(***************************************************************************)
(* The inductive invariant, in named parts.                                 *)
(***************************************************************************)

\* Nothing carries a token that was never generated.
SessTokens == \A p \in Procs : sess[p].token <= issued
OpTokens == \A p \in Procs : op[p].token <= issued
StrayTokens == \A s \in stray : s.token <= issued
MintTokens == \A i \in 1 .. Len(minted) : minted[i].token <= issued

\* Nothing was sent in the future, and no deadline exceeds its bound.
OpSent == \A p \in Procs : op[p].sent <= now
StraySent == \A s \in stray : s.sent <= now
RowAcquired == \A w \in Workers : row[w].acquired <= now
Deadlines == \A p \in Procs : sess[p].deadline <= now + (TTL - Margin)

\* A running session owns its token ...
OneOwner ==
    \A p, q \in Procs :
        (sess[p].token = sess[q].token /\ sess[p].token # 0) => p = q

\* ... and p's renewal or release speaks for p's session.
Speaks ==
    \A p \in Procs : op[p].kind \in {"renew", "release"} =>
        /\ sess[p].token # 0
        /\ op[p].token = sess[p].token /\ op[p].worker = sess[p].worker

\* Minting is halted before the release is sent.
ReleaseHalts == \A p \in Procs : op[p].kind = "release" => sess[p].deadline = 0
LiveRuns == \A p \in Procs : sess[p].deadline > 0 => sess[p].token # 0

\* Every statement carries a real token.
NamedOp == \A p \in Procs : op[p].kind # "none" => op[p].token # 0
NamedStray == \A s \in stray : s.token # 0 /\ s.kind # "none"

\* The token of an acquire statement is in nobody else's hands yet.
FreshSess ==
    \A p \in Procs : op[p].kind = "acquire" =>
        \A q \in Procs : sess[q].token # op[p].token
FreshOp ==
    \A p, q \in Procs :
        (op[p].kind = "acquire" /\ op[q].token = op[p].token) => q = p
FreshStray ==
    \A p \in Procs : \A s \in stray :
        op[p].kind = "acquire" => s.token # op[p].token
FreshMint ==
    \A p \in Procs : \A i \in 1 .. Len(minted) :
        op[p].kind = "acquire" => minted[i].token # op[p].token

\* Nor is the token of an abandoned one, and an abandoned release finds its
\* session gone for good.
StrayAcquire ==
    \A s \in stray : \A p \in Procs :
        s.kind \in {"acquire", "release"} => sess[p].token # s.token
StrayMint ==
    \A s \in stray : \A i \in 1 .. Len(minted) :
        s.kind = "acquire" => minted[i].token # s.token

\* A "held" answer on its way back is as good as when it was given.
FencedReply ==
    \A p \in Procs :
        /\ op[p].kind \in {"acquire", "renew"} /\ op[p].res = "held"
        /\ op[p].sent + TTL > now
        => /\ row[op[p].worker].token = op[p].token
           /\ op[p].sent + TTL <= row[op[p].worker].expires

FenceParts ==
    /\ SessTokens /\ OpTokens /\ StrayTokens /\ MintTokens /\ OpSent
    /\ StraySent /\ RowAcquired /\ Deadlines /\ OneOwner /\ Speaks
    /\ ReleaseHalts /\ LiveRuns /\ NamedOp /\ NamedStray /\ FreshSess
    /\ FreshOp /\ FreshStray /\ FreshMint /\ StrayAcquire /\ StrayMint
    /\ FencedReply /\ Fenced

FenceInv == TypeOK /\ FenceParts

(***************************************************************************)
(* The types of the fields the arguments below compute with.                *)
(***************************************************************************)
Clocks == now \in Nat /\ issued \in Nat
OpFields == \A p \in Procs : /\ op[p].token \in Nat /\ op[p].sent \in Nat
                             /\ op[p].worker \in Workers
SessFields == \A p \in Procs : /\ sess[p].token \in Nat /\ sess[p].worker \in Workers
                               /\ sess[p].deadline \in Int
RowFields == \A w \in Workers : /\ row[w].token \in Nat /\ row[w].acquired \in Nat
                                /\ row[w].expires \in Nat
StrayFields == \A s \in stray : /\ s.token \in Nat /\ s.sent \in Nat
                                /\ s.worker \in Workers
MintFields == /\ Len(minted) \in Nat
              /\ \A i \in 1 .. Len(minted) :
                    minted[i].token \in Nat /\ minted[i].at \in Nat
Fields == /\ Clocks /\ OpFields /\ SessFields /\ RowFields /\ StrayFields
          /\ MintFields

LEMMA FieldTypes == TypeOK => Fields
<1> SUFFICES ASSUME TypeOK PROVE Fields
  OBVIOUS
<1> USE LayoutAssumption
<1>1. now \in Nat /\ issued \in Nat
  BY DEF TypeOK
<1>2. ASSUME NEW p \in Procs
      PROVE op[p].token \in Nat /\ op[p].sent \in Nat /\ op[p].worker \in Workers
  <2>1. op[p] \in Statements \/ op[p] = NoOp
    BY DEF TypeOK
  <2>2. CASE op[p] \in Statements
    BY <2>2 DEF Statements
  <2>3. CASE op[p] = NoOp
    BY <2>3 DEF NoOp, Workers
  <2> QED BY <2>1, <2>2, <2>3
<1>3. ASSUME NEW p \in Procs
      PROVE /\ sess[p].token \in Nat /\ sess[p].worker \in Workers
            /\ sess[p].deadline \in Int
  BY DEF TypeOK, Sessions
<1>4. ASSUME NEW w \in Workers
      PROVE row[w].token \in Nat /\ row[w].acquired \in Nat /\ row[w].expires \in Nat
  BY DEF TypeOK, Rows
<1>5. ASSUME NEW s \in stray
      PROVE s.token \in Nat /\ s.sent \in Nat /\ s.worker \in Workers
  BY DEF TypeOK, Statements
<1>6. Len(minted) \in Nat /\ \A i \in 1 .. Len(minted) : minted[i] \in Mints
  BY DEF TypeOK
<1>7. \A i \in 1 .. Len(minted) : minted[i].token \in Nat /\ minted[i].at \in Nat
  BY <1>6 DEF Mints
<1> QED BY <1>1, <1>2, <1>3, <1>4, <1>5, <1>6, <1>7
       DEF Fields, Clocks, OpFields, SessFields, RowFields, StrayFields, MintFields

(***************************************************************************)
(* What a step does to the fields: p's statement and p's session are        *)
(* overwritten, every other process's are left alone.                       *)
(***************************************************************************)
SetOp(p, k, t, w, s, r) ==
    \A q \in Procs :
        /\ op'[q].kind   = IF q = p THEN k ELSE op[q].kind
        /\ op'[q].token  = IF q = p THEN t ELSE op[q].token
        /\ op'[q].worker = IF q = p THEN w ELSE op[q].worker
        /\ op'[q].sent   = IF q = p THEN s ELSE op[q].sent
        /\ op'[q].res    = IF q = p THEN r ELSE op[q].res

SetSess(p, t, w, d) ==
    \A q \in Procs :
        /\ sess'[q].token    = IF q = p THEN t ELSE sess[q].token
        /\ sess'[q].worker   = IF q = p THEN w ELSE sess[q].worker
        /\ sess'[q].deadline = IF q = p THEN d ELSE sess[q].deadline

SetRow(w, t, a, e) ==
    \A v \in Workers :
        /\ row'[v].token    = IF v = w THEN t ELSE row[v].token
        /\ row'[v].acquired = IF v = w THEN a ELSE row[v].acquired
        /\ row'[v].expires  = IF v = w THEN e ELSE row[v].expires


\* Start, AcquireRetries, BeatLost: a statement with a fresh token.
LEMMA SendsAcquire ==
    ASSUME Fields,
           FenceParts,
           NEW p \in Procs,
           NEW s \in Nat, s <= now,
           SetOp(p, "acquire", issued + 1, 0, s, "pending"),
           NEW d \in {sess[p].deadline, 0}, SetSess(p, sess[p].token, sess[p].worker, d),
           issued' = issued + 1,
           op[p].kind # "release",
           now' = now /\ row' = row /\ stray' = stray /\ minted' = minted
    PROVE  FenceParts'
<1> USE CadenceAssumption DEF Fields, Clocks, FenceParts, SetOp, SetSess, SetRow
<1>1. /\ StraySent' /\ RowAcquired' /\ NamedStray' /\ StrayMint'
  BY DEF StraySent, RowAcquired, NamedStray, StrayMint
<1>2. SessTokens'
  BY DEF SessTokens, SessFields
<1>3. OpTokens'
  BY DEF OpTokens, OpFields
<1>4. StrayTokens'
  BY DEF StrayTokens, StrayFields
<1>5. MintTokens'
  BY DEF MintTokens, MintFields
<1>6. OpSent'
  BY DEF OpSent, OpFields
<1>7. Deadlines'
  BY DEF Deadlines, SessFields
<1>8. OneOwner'
  BY DEF OneOwner, SessFields
<1>9. Speaks'
  BY DEF Speaks, OpFields, SessFields
<1>10. ReleaseHalts'
  BY DEF ReleaseHalts, OpFields, SessFields
<1>11. LiveRuns'
  BY DEF LiveRuns, SessFields
<1>12. NamedOp'
  BY DEF NamedOp, OpFields
<1>13. FreshSess'
  BY DEF FreshSess, SessTokens, OpFields, SessFields
<1>14. FreshOp'
  BY DEF FreshOp, OpTokens, OpFields
<1>15. FreshStray'
  BY DEF FreshStray, StrayTokens, OpFields, StrayFields
<1>16. FreshMint'
  BY DEF FreshMint, MintTokens, MintFields, OpFields
<1>17. StrayAcquire'
  BY DEF StrayAcquire, SessFields, StrayFields
<1>18. FencedReply'
  BY DEF FencedReply, OpFields, RowFields
<1>19. Fenced'
  BY DEF Fenced, LeaseLive, RowFields, SessFields
<1> QED BY <1>1, <1>2, <1>3, <1>4, <1>5, <1>6, <1>7, <1>8, <1>9, <1>10, <1>11,
       <1>12, <1>13, <1>14, <1>15, <1>16, <1>17, <1>18, <1>19

\* Beat, Stop: a statement with the session's own token.
LEMMA SendsForSession ==
    ASSUME Fields,
           FenceParts,
           NEW p \in Procs,
           sess[p].token # 0,
           op[p].kind = "none",
           NEW k \in {"renew", "release"},
           SetOp(p, k, sess[p].token, sess[p].worker, now, "pending"),
           NEW d \in {sess[p].deadline, 0}, k = "release" => d = 0,
           SetSess(p, sess[p].token, sess[p].worker, d),
           issued' = issued /\ now' = now /\ row' = row /\ stray' = stray /\ minted' = minted
    PROVE  FenceParts'
<1> USE CadenceAssumption DEF Fields, Clocks, FenceParts, SetOp, SetSess, SetRow
<1>1. /\ StrayTokens' /\ MintTokens' /\ StraySent' /\ RowAcquired'
       /\ NamedStray' /\ StrayMint'
  BY DEF StrayTokens, MintTokens, StraySent, RowAcquired, NamedStray, StrayMint
<1>2. SessTokens'
  BY DEF SessTokens, SessFields
<1>3. OpTokens'
  BY DEF OpTokens, SessTokens, OpFields, SessFields
<1>4. OpSent'
  BY DEF OpSent, OpFields
<1>5. Deadlines'
  BY DEF Deadlines, SessFields
<1>6. OneOwner'
  BY DEF OneOwner, SessFields
<1>7. Speaks'
  BY DEF Speaks, OpFields, SessFields
<1>8. ReleaseHalts'
  BY DEF ReleaseHalts, OpFields, SessFields
<1>9. LiveRuns'
  BY DEF LiveRuns, SessFields
<1>10. NamedOp'
  BY DEF NamedOp, OpFields
<1>11. FreshSess'
  BY DEF FreshSess, OpFields, SessFields
<1>12. FreshOp'
  BY DEF FreshOp, FreshSess, OpFields, SessFields
<1>13. FreshStray'
  BY DEF FreshStray, OpFields, StrayFields
<1>14. FreshMint'
  BY DEF FreshMint, MintFields, OpFields
<1>15. StrayAcquire'
  BY DEF StrayAcquire, SessFields, StrayFields
<1>16. FencedReply'
  BY DEF FencedReply, OpFields, RowFields
<1>17. Fenced'
  BY DEF Fenced, LeaseLive, RowFields, SessFields
<1> QED BY <1>1, <1>2, <1>3, <1>4, <1>5, <1>6, <1>7, <1>8, <1>9, <1>10, <1>11,
       <1>12, <1>13, <1>14, <1>15, <1>16, <1>17

\* AcquireFails, BeatFails, Stopped, Crash: the statement is given up.
LEMMA Drops ==
    ASSUME Fields,
           FenceParts,
           NEW p \in Procs,
           SetOp(p, "none", 0, 0, 0, "none"),
           \/ SetSess(p, 0, 0, 0)
           \/ sess' = sess /\ op[p].kind # "release",
           \/ stray' = stray
           \/ stray' = stray \cup {op[p]} /\ op[p].kind # "none",
           issued' = issued /\ now' = now /\ row' = row /\ minted' = minted
    PROVE  FenceParts'
<1> USE CadenceAssumption DEF Fields, Clocks, FenceParts, SetOp, SetSess, SetRow
<1>1. /\ MintTokens' /\ RowAcquired'
  BY DEF MintTokens, RowAcquired
<1>2. SessTokens'
  BY DEF SessTokens, SessFields
<1>3. OpTokens'
  BY DEF OpTokens, OpFields
<1>4. StrayTokens'
  BY DEF StrayTokens, OpTokens, StrayFields, OpFields
<1>5. OpSent'
  BY DEF OpSent, OpFields
<1>6. StraySent'
  BY DEF StraySent, OpSent, StrayFields, OpFields
<1>7. Deadlines'
  BY DEF Deadlines, SessFields
<1>8. OneOwner'
  BY DEF OneOwner, SessFields
<1>9. Speaks'
  BY DEF Speaks, OpFields, SessFields
<1>10. ReleaseHalts'
  BY DEF ReleaseHalts, OpFields, SessFields
<1>11. LiveRuns'
  BY DEF LiveRuns, SessFields
<1>12. NamedOp'
  BY DEF NamedOp, OpFields
<1>13. NamedStray'
  BY DEF NamedStray, NamedOp, StrayFields, OpFields
<1>14. FreshSess'
  BY DEF FreshSess, NamedOp, OpFields, SessFields
<1>15. FreshOp'
  BY DEF FreshOp, NamedOp, OpFields
<1>16. FreshStray'
  BY DEF FreshStray, FreshOp, OpFields, StrayFields
<1>17. FreshMint'
  BY DEF FreshMint, MintFields, OpFields
<1>18. StrayAcquire'
  <2>1. \A s \in stray : \A q \in Procs :
            s.kind \in {"acquire", "release"} => sess'[q].token # s.token
    BY DEF StrayAcquire, NamedStray, StrayFields, SessFields
  <2>2. ASSUME op[p].kind # "none", NEW q \in Procs,
               op[p].kind \in {"acquire", "release"}
        PROVE  sess'[q].token # op[p].token
    <3>1. CASE op[p].kind = "acquire"
      BY <2>2, <3>1 DEF FreshSess, NamedOp, SessFields, OpFields
    <3>2. CASE op[p].kind = "release"
      BY <2>2, <3>2 DEF Speaks, OneOwner, SessFields
    <3> QED BY <2>2, <3>1, <3>2
  <2> QED BY <2>1, <2>2 DEF StrayAcquire
<1>19. StrayMint'
  BY DEF StrayMint, FreshMint, MintFields, StrayFields, OpFields
<1>20. FencedReply'
  BY DEF FencedReply, OpFields, RowFields
<1>21. Fenced'
  BY DEF Fenced, LeaseLive, RowFields, SessFields
<1> QED BY <1>1, <1>2, <1>3, <1>4, <1>5, <1>6, <1>7, <1>8, <1>9, <1>10, <1>11,
       <1>12, <1>13, <1>14, <1>15, <1>16, <1>17, <1>18, <1>19, <1>20, <1>21

\* AcquireSucceeds: a new session under the statement's token.
LEMMA GetsLease ==
    ASSUME Fields,
           FenceParts,
           NEW p \in Procs,
           op[p].kind = "acquire", op[p].res = "held",
           SetSess(p, op[p].token, op[p].worker, op[p].sent + (TTL - Margin)),
           SetOp(p, "none", 0, 0, 0, "none"),
           issued' = issued /\ now' = now /\ row' = row /\ stray' = stray /\ minted' = minted
    PROVE  FenceParts'
<1> USE CadenceAssumption DEF Fields, Clocks, FenceParts, SetOp, SetSess, SetRow
<1>1. /\ StrayTokens' /\ MintTokens' /\ StraySent' /\ RowAcquired'
       /\ NamedStray' /\ StrayMint'
  BY DEF StrayTokens, MintTokens, StraySent, RowAcquired, NamedStray, StrayMint
<1>2. SessTokens'
  BY DEF SessTokens, OpTokens, SessFields, OpFields
<1>3. OpTokens'
  BY DEF OpTokens, OpFields
<1>4. OpSent'
  BY DEF OpSent, OpFields
<1>5. Deadlines'
  BY DEF Deadlines, OpSent, SessFields, OpFields
<1>6. OneOwner'
  BY DEF OneOwner, FreshSess, SessFields, OpFields
<1>7. Speaks'
  BY DEF Speaks, OpFields, SessFields
<1>8. ReleaseHalts'
  BY DEF ReleaseHalts, OpFields, SessFields
<1>9. LiveRuns'
  BY DEF LiveRuns, NamedOp, SessFields, OpFields
<1>10. NamedOp'
  BY DEF NamedOp, OpFields
<1>11. FreshSess'
  BY DEF FreshSess, FreshOp, OpFields, SessFields
<1>12. FreshOp'
  BY DEF FreshOp, NamedOp, OpFields
<1>13. FreshStray'
  BY DEF FreshStray, OpFields, StrayFields
<1>14. FreshMint'
  BY DEF FreshMint, MintFields, OpFields
<1>15. StrayAcquire'
  BY DEF StrayAcquire, FreshStray, SessFields, StrayFields, OpFields
<1>16. FencedReply'
  BY DEF FencedReply, OpFields, RowFields
<1>17. Fenced'
  BY DEF Fenced, FencedReply, LeaseLive, RowFields, SessFields, OpFields
<1> QED BY <1>1, <1>2, <1>3, <1>4, <1>5, <1>6, <1>7, <1>8, <1>9, <1>10, <1>11,
       <1>12, <1>13, <1>14, <1>15, <1>16, <1>17

\* BeatHeld: a later deadline for the same session.
LEMMA ExtendsLease ==
    ASSUME Fields,
           FenceParts,
           NEW p \in Procs,
           op[p].kind = "renew", op[p].res = "held",
           SetSess(p, sess[p].token, sess[p].worker, op[p].sent + (TTL - Margin)),
           SetOp(p, "none", 0, 0, 0, "none"),
           issued' = issued /\ now' = now /\ row' = row /\ stray' = stray /\ minted' = minted
    PROVE  FenceParts'
<1> USE CadenceAssumption DEF Fields, Clocks, FenceParts, SetOp, SetSess, SetRow
<1>1. /\ StrayTokens' /\ MintTokens' /\ StraySent' /\ RowAcquired'
       /\ NamedStray' /\ StrayMint'
  BY DEF StrayTokens, MintTokens, StraySent, RowAcquired, NamedStray, StrayMint
<1>2. SessTokens'
  BY DEF SessTokens, SessFields
<1>3. OpTokens'
  BY DEF OpTokens, OpFields
<1>4. OpSent'
  BY DEF OpSent, OpFields
<1>5. Deadlines'
  BY DEF Deadlines, OpSent, SessFields, OpFields
<1>6. OneOwner'
  BY DEF OneOwner, SessFields
<1>7. Speaks'
  BY DEF Speaks, OpFields, SessFields
<1>8. ReleaseHalts'
  BY DEF ReleaseHalts, OpFields, SessFields
<1>9. LiveRuns'
  BY DEF LiveRuns, Speaks, SessFields, OpFields
<1>10. NamedOp'
  BY DEF NamedOp, OpFields
<1>11. FreshSess'
  BY DEF FreshSess, OpFields, SessFields
<1>12. FreshOp'
  BY DEF FreshOp, NamedOp, OpFields
<1>13. FreshStray'
  BY DEF FreshStray, OpFields, StrayFields
<1>14. FreshMint'
  BY DEF FreshMint, MintFields, OpFields
<1>15. StrayAcquire'
  BY DEF StrayAcquire, SessFields, StrayFields
<1>16. FencedReply'
  BY DEF FencedReply, OpFields, RowFields
<1>17. Fenced'
  BY DEF Fenced, FencedReply, Speaks, LeaseLive, RowFields, SessFields, OpFields
<1> QED BY <1>1, <1>2, <1>3, <1>4, <1>5, <1>6, <1>7, <1>8, <1>9, <1>10, <1>11,
       <1>12, <1>13, <1>14, <1>15, <1>16, <1>17

\* Mint, SpinMint: one more id under a live session.
LEMMA Emits ==
    ASSUME Fields,
           FenceParts,
           NEW p \in Procs,
           sess[p].token # 0,
           NEW m, minted' = Append(minted, m), m.token = sess[p].token,
           SetSess(p, sess[p].token, sess[p].worker, sess[p].deadline),
           issued' = issued /\ now' = now /\ row' = row /\ stray' = stray /\ op' = op
    PROVE  FenceParts'
<1> USE CadenceAssumption DEF Fields, Clocks, FenceParts, SetOp, SetSess, SetRow
<1>1. /\ OpTokens' /\ StrayTokens' /\ OpSent' /\ StraySent' /\ RowAcquired'
       /\ NamedOp' /\ NamedStray' /\ FreshOp' /\ FreshStray' /\ FencedReply'
  BY DEF OpTokens, StrayTokens, OpSent, StraySent, RowAcquired, NamedOp,
       NamedStray, FreshOp, FreshStray, FencedReply
<1>2. SessTokens'
  BY DEF SessTokens, SessFields
<1>3. MintTokens'
  BY DEF MintTokens, SessTokens, MintFields, SessFields
<1>4. Deadlines'
  BY DEF Deadlines, SessFields
<1>5. OneOwner'
  BY DEF OneOwner, SessFields
<1>6. Speaks'
  BY DEF Speaks, OpFields, SessFields
<1>7. ReleaseHalts'
  BY DEF ReleaseHalts, OpFields, SessFields
<1>8. LiveRuns'
  BY DEF LiveRuns, SessFields
<1>9. FreshSess'
  BY DEF FreshSess, OpFields, SessFields
<1>10. FreshMint'
  BY DEF FreshMint, FreshSess, MintFields, OpFields, SessFields
<1>11. StrayAcquire'
  BY DEF StrayAcquire, SessFields, StrayFields
<1>12. StrayMint'
  BY DEF StrayMint, StrayAcquire, MintFields, StrayFields, SessFields
<1>13. Fenced'
  BY DEF Fenced, LeaseLive, RowFields, SessFields
<1> QED BY <1>1, <1>2, <1>3, <1>4, <1>5, <1>6, <1>7, <1>8, <1>9, <1>10, <1>11,
       <1>12, <1>13

\* Tick: deadlines and expiries come closer, nothing else moves.
LEMMA Ticks ==
    ASSUME Fields,
           FenceParts,
           now' = now + 1,
           issued' = issued /\ row' = row /\ sess' = sess /\ stray' = stray /\ op' = op /\ minted' = minted
    PROVE  FenceParts'
<1> USE CadenceAssumption DEF Fields, Clocks, FenceParts, SetOp, SetSess, SetRow
<1>1. /\ SessTokens' /\ OpTokens' /\ StrayTokens' /\ MintTokens'
       /\ OneOwner' /\ Speaks' /\ ReleaseHalts' /\ LiveRuns' /\ NamedOp'
       /\ NamedStray' /\ FreshSess' /\ FreshOp' /\ FreshStray'
       /\ FreshMint' /\ StrayAcquire' /\ StrayMint'
  BY DEF SessTokens, OpTokens, StrayTokens, MintTokens, OneOwner, Speaks,
       ReleaseHalts, LiveRuns, NamedOp, NamedStray, FreshSess, FreshOp,
       FreshStray, FreshMint, StrayAcquire, StrayMint
<1>2. OpSent'
  BY DEF OpSent, OpFields
<1>3. StraySent'
  BY DEF StraySent, StrayFields
<1>4. RowAcquired'
  BY DEF RowAcquired, RowFields
<1>5. Deadlines'
  BY DEF Deadlines, SessFields
<1>6. FencedReply'
  BY DEF FencedReply, OpFields, RowFields
<1>7. Fenced'
  BY DEF Fenced, LeaseLive, RowFields, SessFields
<1> QED BY <1>1, <1>2, <1>3, <1>4, <1>5, <1>6, <1>7

(***************************************************************************)
(* What an executing statement may do to the table.                         *)
(***************************************************************************)
Claims(w, t) ==
    /\ row[w].token = 0 \/ row[w].expires <= now
    /\ SetRow(w, t, now, now + TTL)

Extends(w) == SetRow(w, row[w].token, row[w].acquired, now + TTL)

Frees(w, t) ==
    /\ row[w].token = t
    /\ \A q \in Procs : sess[q].token = t => sess[q].deadline = 0
    /\ \A q \in Procs : op[q].kind \in {"acquire", "renew"} => op[q].token # t
    /\ SetRow(w, 0, 0, 0)

RowMove ==
    \/ row' = row
    \/ \E w \in Workers : Extends(w)
    \/ \E w \in Workers, t \in Nat : Claims(w, t) \/ Frees(w, t)

\* None of it can take a row from a live session ...
LEMMA RowMoveKeepsFence ==
    ASSUME Fields, FenceParts, RowMove, now' = now, sess' = sess
    PROVE  RowAcquired' /\ Fenced'
<1> USE CadenceAssumption DEF Fields, Clocks, FenceParts, SetRow, RowFields, SessFields
<1>1. CASE row' = row
  BY <1>1 DEF RowAcquired, Fenced, LeaseLive
<1>2. CASE \E w \in Workers : Extends(w)
  <2>1. PICK w \in Workers : Extends(w)
    BY <1>2
  <2>2. RowAcquired'
    BY <2>1 DEF Extends, RowAcquired
  <2>3. Fenced'
    BY <2>1 DEF Extends, Fenced, LeaseLive, Deadlines
  <2> QED BY <2>2, <2>3
<1>3. CASE \E w \in Workers, t \in Nat : Claims(w, t)
  <2>1. PICK w \in Workers, t \in Nat : Claims(w, t)
    BY <1>3
  <2>2. RowAcquired'
    BY <2>1 DEF Claims, RowAcquired
  <2>3. Fenced'
    BY <2>1 DEF Claims, Fenced, LeaseLive, LiveRuns
  <2> QED BY <2>2, <2>3
<1>4. CASE \E w \in Workers, t \in Nat : Frees(w, t)
  <2>1. PICK w \in Workers, t \in Nat : Frees(w, t)
    BY <1>4
  <2>2. RowAcquired'
    BY <2>1 DEF Frees, RowAcquired
  <2>3. Fenced'
    BY <2>1 DEF Frees, Fenced, LeaseLive
  <2> QED BY <2>2, <2>3
<1> QED BY <1>1, <1>2, <1>3, <1>4 DEF RowMove

\* ... nor spoil a "held" answer that is on its way.
LEMMA RowMoveKeepsReply ==
    ASSUME Fields, FenceParts, RowMove, NEW q \in Procs,
           op[q].kind \in {"acquire", "renew"}, op[q].res = "held",
           op[q].sent + TTL > now
    PROVE  /\ row'[op[q].worker].token = op[q].token
           /\ op[q].sent + TTL <= row'[op[q].worker].expires
<1> USE CadenceAssumption DEF Fields, Clocks, FenceParts, SetRow, RowFields, OpFields
<1>0. /\ row[op[q].worker].token = op[q].token
      /\ op[q].sent + TTL <= row[op[q].worker].expires
      /\ op[q].token # 0
  BY DEF FencedReply, NamedOp
<1>1. CASE row' = row
  BY <1>0, <1>1
<1>2. CASE \E w \in Workers : Extends(w)
  BY <1>0, <1>2 DEF Extends, OpSent
<1>3. CASE \E w \in Workers, t \in Nat : Claims(w, t)
  BY <1>0, <1>3 DEF Claims
<1>4. CASE \E w \in Workers, t \in Nat : Frees(w, t)
  BY <1>0, <1>4 DEF Frees
<1> QED BY <1>1, <1>2, <1>3, <1>4 DEF RowMove

\* DatabaseExecutes: the answer comes back to p.
LEMMA Answers ==
    ASSUME Fields, FenceParts, RowMove, NEW p \in Procs, NEW w \in Workers, NEW res,
           SetOp(p, op[p].kind, op[p].token, w, op[p].sent, res),
           op[p].kind # "acquire" => w = op[p].worker,
           op[p].kind \in {"acquire", "renew"} /\ res = "held" =>
               row'[w].token = op[p].token /\ row'[w].expires = now + TTL,
           issued' = issued /\ now' = now /\ sess' = sess /\ stray' = stray,
           minted' = minted
    PROVE  FenceParts'
<1> USE CadenceAssumption DEF Fields, Clocks, FenceParts, SetOp
<1>1. RowAcquired' /\ Fenced'
  BY RowMoveKeepsFence
<1>2. /\ SessTokens' /\ StrayTokens' /\ MintTokens' /\ StraySent'
       /\ Deadlines' /\ OneOwner' /\ LiveRuns' /\ NamedStray'
       /\ StrayAcquire' /\ StrayMint'
  BY DEF SessTokens, StrayTokens, MintTokens, StraySent, Deadlines, OneOwner,
       LiveRuns, NamedStray, StrayAcquire, StrayMint
<1>3. OpTokens'
  BY DEF OpTokens, OpFields
<1>4. OpSent'
  BY DEF OpSent, OpFields
<1>5. Speaks'
  BY DEF Speaks, OpFields, SessFields
<1>6. ReleaseHalts'
  BY DEF ReleaseHalts, OpFields, SessFields
<1>7. NamedOp'
  BY DEF NamedOp, OpFields
<1>8. FreshSess'
  BY DEF FreshSess, OpFields, SessFields
<1>9. FreshOp'
  BY DEF FreshOp, OpFields
<1>10. FreshStray'
  BY DEF FreshStray, OpFields, StrayFields
<1>11. FreshMint'
  BY DEF FreshMint, MintFields, OpFields
<1>12. FencedReply'
  <2> SUFFICES ASSUME NEW q \in Procs, op'[q].kind \in {"acquire", "renew"},
                      op'[q].res = "held", op'[q].sent + TTL > now'
               PROVE  /\ row'[op'[q].worker].token = op'[q].token
                      /\ op'[q].sent + TTL <= row'[op'[q].worker].expires
    BY DEF FencedReply
  <2>1. CASE q = p
    BY <2>1 DEF OpSent, OpFields
  <2>2. CASE q # p
    BY <2>2, RowMoveKeepsReply
  <2> QED BY <2>1, <2>2
<1> QED BY <1>1, <1>2, <1>3, <1>4, <1>5, <1>6, <1>7, <1>8, <1>9, <1>10, <1>11,
       <1>12

\* StrayExecutes: nobody hears of the answer.
LEMMA Executes ==
    ASSUME Fields, FenceParts, RowMove, stray' \subseteq stray,
           issued' = issued /\ now' = now /\ sess' = sess /\ op' = op,
           minted' = minted
    PROVE  FenceParts'
<1> USE DEF FenceParts
<1>1. RowAcquired' /\ Fenced'
  BY RowMoveKeepsFence
<1>2. /\ SessTokens' /\ OpTokens' /\ MintTokens' /\ OpSent' /\ Deadlines'
       /\ OneOwner' /\ Speaks' /\ ReleaseHalts' /\ LiveRuns' /\ NamedOp'
       /\ FreshSess' /\ FreshOp' /\ FreshMint'
  BY DEF SessTokens, OpTokens, MintTokens, OpSent, Deadlines, OneOwner, Speaks,
       ReleaseHalts, LiveRuns, NamedOp, FreshSess, FreshOp, FreshMint
<1>3. /\ StrayTokens' /\ StraySent' /\ NamedStray' /\ FreshStray'
       /\ StrayAcquire' /\ StrayMint'
  BY DEF StrayTokens, StraySent, NamedStray, FreshStray, StrayAcquire, StrayMint
<1>4. FencedReply'
  <2> SUFFICES ASSUME NEW q \in Procs, op[q].kind \in {"acquire", "renew"},
                      op[q].res = "held", op[q].sent + TTL > now
               PROVE  /\ row'[op[q].worker].token = op[q].token
                      /\ op[q].sent + TTL <= row'[op[q].worker].expires
    BY DEF FencedReply
  <2> QED BY RowMoveKeepsReply
<1> QED BY <1>1, <1>2, <1>3, <1>4

(***************************************************************************)
(* Every action is one of these effects.                                    *)
(***************************************************************************)
LEMMA ExecuteMoves ==
    ASSUME TypeOK, FenceParts, NEW s, NEW w \in Workers, NEW res, Execute(s, w, res),
           s.kind \in Kinds, s.token \in Nat,
           s.kind = "release" =>
              /\ \A q \in Procs : sess[q].token = s.token => sess[q].deadline = 0
              /\ \A q \in Procs :
                    op[q].kind \in {"acquire", "renew"} => op[q].token # s.token
    PROVE  /\ RowMove
           /\ s.kind \in {"acquire", "renew"} /\ res = "held" =>
                 row'[w].token = s.token /\ row'[w].expires = now + TTL
           /\ s.kind # "acquire" => w = s.worker
<1>1. CASE s.kind = "acquire" /\ res = "held"
  <2>1. /\ LowestFree(w)
        /\ row' = [row EXCEPT ![w] = [token |-> s.token, acquired |-> now,
                                      expires |-> now + TTL]]
    BY <1>1 DEF Execute
  <2>2. SetRow(w, s.token, now, now + TTL)
    BY <2>1 DEF SetRow, TypeOK
  <2>3. Claims(w, s.token)
    BY <2>1, <2>2, FieldTypes DEF Claims, LowestFree, Unexpired, Fields, RowFields, Clocks
  <2> QED BY <1>1, <2>2, <2>3 DEF RowMove, SetRow
<1>2. CASE s.kind = "acquire" /\ res # "held"
  BY <1>2 DEF Execute, RowMove
<1>3. CASE s.kind = "renew" /\ res = "held"
  <2>1. /\ RenewMatches(s) /\ w = s.worker
        /\ row' = [row EXCEPT ![w].expires = now + TTL]
    BY <1>3 DEF Execute
  <2>2. SetRow(w, row[w].token, row[w].acquired, now + TTL)
    BY <2>1 DEF SetRow, TypeOK, Rows
  <2>3. Extends(w) /\ row[w].token = s.token
    BY <2>1, <2>2 DEF Extends, RenewMatches
  <2> QED BY <1>3, <2>1, <2>2, <2>3 DEF RowMove, SetRow
<1>4. CASE s.kind = "renew" /\ res # "held"
  BY <1>4 DEF Execute, RowMove
<1>5. CASE s.kind = "release"
  <2>1. /\ w = s.worker
        /\ row' = IF row[w].token = s.token
                  THEN [row EXCEPT ![w] = NoRow] ELSE row
    BY <1>5 DEF Execute
  <2>2. CASE row[w].token = s.token
    <3>1. SetRow(w, 0, 0, 0)
      BY <2>1, <2>2 DEF SetRow, TypeOK, NoRow
    <3>2. Frees(w, s.token)
      BY <1>5, <2>2, <3>1 DEF Frees
    <3> QED BY <1>5, <2>1, <3>2 DEF RowMove
  <2>3. CASE row[w].token # s.token
    BY <1>5, <2>1, <2>3 DEF RowMove
  <2> QED BY <2>2, <2>3
<1> QED BY <1>1, <1>2, <1>3, <1>4, <1>5 DEF Kinds

LEMMA ProcStepKeeps ==
    ASSUME FenceInv, NEW p \in Procs, ProcNext(p)
    PROVE  FenceParts'
<1> USE FieldTypes DEF FenceInv
<1>0. Fields /\ (op[p].kind = "none" => op[p].token = 0)
  <2>1. op[p] \in Statements \/ op[p] = NoOp
    BY DEF TypeOK
  <2>2. op[p].kind = "none" => op[p].token = 0
    BY <2>1 DEF Statements, Kinds, NoOp
  <2> QED BY <2>2
<1>1. CASE Start(p)
  <2>1. /\ SetOp(p, "acquire", issued + 1, 0, now, "pending")
        /\ SetSess(p, sess[p].token, sess[p].worker, sess[p].deadline)
    BY <1>1 DEF Start, SendAcquire, SetOp, SetSess, TypeOK
  <2> QED BY <1>0, <1>1, <2>1, SendsAcquire
          DEF Start, SendAcquire, Idle, Fields, Clocks
<1>2. CASE AcquireRetries(p)
  <2>1. /\ SetOp(p, "acquire", issued + 1, 0, op[p].sent, "pending")
        /\ SetSess(p, sess[p].token, sess[p].worker, sess[p].deadline)
    BY <1>2 DEF AcquireRetries, SendAcquire, SetOp, SetSess, TypeOK
  <2>2. op[p].sent \in Nat /\ op[p].sent <= now
    BY <1>0 DEF Fields, OpFields, FenceParts, OpSent
  <2> QED BY <1>0, <1>2, <2>1, <2>2, SendsAcquire DEF AcquireRetries, SendAcquire
<1>3. CASE BeatLost(p)
  <2>1. /\ SetOp(p, "acquire", issued + 1, 0, now, "pending")
        /\ SetSess(p, sess[p].token, sess[p].worker, 0)
    BY <1>3 DEF BeatLost, SendAcquire, SetOp, SetSess, TypeOK, Sessions
  <2> QED BY <1>0, <1>3, <2>1, SendsAcquire DEF BeatLost, SendAcquire, Fields, Clocks
<1>4. CASE Beat(p)
  <2>1. /\ SetOp(p, "renew", sess[p].token, sess[p].worker, now, "pending")
        /\ SetSess(p, sess[p].token, sess[p].worker, sess[p].deadline)
    BY <1>4 DEF Beat, SetOp, SetSess, TypeOK
  <2> QED BY <1>0, <1>4, <2>1, SendsForSession DEF Beat, Idle, Running
<1>5. CASE Stop(p)
  <2>1. /\ SetOp(p, "release", sess[p].token, sess[p].worker, now, "pending")
        /\ SetSess(p, sess[p].token, sess[p].worker, 0)
    BY <1>5 DEF Stop, SetOp, SetSess, TypeOK, Sessions
  <2> QED BY <1>0, <1>5, <2>1, SendsForSession DEF Stop, Idle, Running
<1>6. CASE AcquireFails(p) \/ BeatFails(p)
  <2>1. SetOp(p, "none", 0, 0, 0, "none")
    BY <1>6 DEF AcquireFails, BeatFails, NoOp, SetOp, TypeOK
  <2> QED BY <1>0, <1>6, <2>1, Drops DEF AcquireFails, BeatFails, Abandon
<1>7. CASE Stopped(p)
  <2>1. SetOp(p, "none", 0, 0, 0, "none") /\ SetSess(p, 0, 0, 0)
    BY <1>7 DEF Stopped, NoOp, NoSess, SetOp, SetSess, TypeOK
  <2> QED BY <1>0, <1>7, <2>1, Drops DEF Stopped, Abandon
<1>8. CASE Crash(p)
  <2>1. SetOp(p, "none", 0, 0, 0, "none") /\ SetSess(p, 0, 0, 0)
    BY <1>8 DEF Crash, NoOp, NoSess, SetOp, SetSess, TypeOK
  <2>2. op[p].res = "pending" => op[p].kind # "none"
    BY DEF TypeOK, Statements, Kinds, NoOp
  <2> QED BY <1>0, <1>8, <2>1, <2>2, Drops DEF Crash, Abandon
<1>9. CASE AcquireSucceeds(p)
  <2>1. /\ SetOp(p, "none", 0, 0, 0, "none")
        /\ SetSess(p, op[p].token, op[p].worker, op[p].sent + (TTL - Margin))
    BY <1>9 DEF AcquireSucceeds, LocalDeadline, NoOp, SetOp, SetSess, TypeOK
  <2> QED BY <1>0, <1>9, <2>1, GetsLease DEF AcquireSucceeds
<1>10. CASE BeatHeld(p)
  <2>1. /\ SetOp(p, "none", 0, 0, 0, "none")
        /\ SetSess(p, sess[p].token, sess[p].worker, op[p].sent + (TTL - Margin))
    BY <1>10 DEF BeatHeld, LocalDeadline, NoOp, SetOp, SetSess, TypeOK, Sessions
  <2> QED BY <1>0, <1>10, <2>1, ExtendsLease DEF BeatHeld
<1>11. CASE Mint(p) \/ SpinMint(p)
  <2>1. PICK millis, s : Emit(p, millis, s)
    BY <1>11 DEF Mint, SpinMint
  <2> DEFINE m == [id |-> PackId(millis, sess[p].worker, s), millis |-> millis,
                   worker |-> sess[p].worker, seq |-> s,
                   token |-> sess[p].token, at |-> now]
  <2>2. minted' = Append(minted, m) /\ m.token = sess[p].token
    BY <2>1 DEF Emit
  <2>5. SetSess(p, sess[p].token, sess[p].worker, sess[p].deadline)
    BY <2>1 DEF Emit, SetSess, TypeOK, Sessions
  <2> HIDE DEF m
  <2>3. LeaseLive(p)
    BY <1>11 DEF Mint, SpinMint
  <2>4. sess[p].token # 0
    BY <1>0, <2>3 DEF LeaseLive, FenceParts, LiveRuns, Fields, SessFields, Clocks
  <2> QED BY <1>0, <1>11, <2>2, <2>4, <2>5, Emits DEF Mint, SpinMint
<1>12. CASE SpinBegin(p) \/ SpinExpires(p) \/ NTPStep(p)
  <2>1. UNCHANGED <<now, row, sess, op, stray, issued, minted>>
    BY <1>12 DEF SpinBegin, SpinExpires, NTPStep
  <2> QED BY <1>0, <2>1, Executes DEF RowMove
<1>13. CASE DatabaseExecutes(p)
  <2>1. PICK w \in Workers, res \in {"held", "lost"} :
            /\ Execute(op[p], w, res)
            /\ op' = [op EXCEPT ![p].worker = w, ![p].res = res]
    BY <1>13 DEF DatabaseExecutes
  <2>2. op[p] \in Statements
    BY <1>13 DEF DatabaseExecutes, TypeOK, NoOp
  <2>3. SetOp(p, op[p].kind, op[p].token, w, op[p].sent, res)
    <3>1. \A q \in Procs : q # p => op'[q] = op[q]
      BY <2>1 DEF TypeOK
    <3>2. op'[p] = [op[p] EXCEPT !.worker = w, !.res = res]
      BY <2>1 DEF TypeOK
    <3>3. /\ op'[p].kind = op[p].kind /\ op'[p].token = op[p].token
          /\ op'[p].worker = w /\ op'[p].sent = op[p].sent /\ op'[p].res = res
      BY <2>2, <3>2 DEF Statements
    <3> QED BY <3>1, <3>3 DEF SetOp
  <2>4. op[p].kind = "release" =>
           /\ \A q \in Procs : sess[q].token = op[p].token => sess[q].deadline = 0
           /\ \A q \in Procs :
                 op[q].kind \in {"acquire", "renew"} => op[q].token # op[p].token
    BY <1>0 DEF FenceParts, Speaks, OneOwner, ReleaseHalts, FreshSess, Fields, SessFields
  <2>5. op[p].kind \in Kinds /\ op[p].token \in Nat
    BY <2>2 DEF Statements
  <2>6. /\ RowMove
        /\ op[p].kind \in {"acquire", "renew"} /\ res = "held" =>
              row'[w].token = op[p].token /\ row'[w].expires = now + TTL
        /\ op[p].kind # "acquire" => w = op[p].worker
    BY <2>1, <2>4, <2>5, ExecuteMoves
  <2> QED BY <1>0, <1>13, <2>3, <2>6, Answers DEF DatabaseExecutes
<1> QED BY <1>1, <1>2, <1>3, <1>4, <1>5, <1>6, <1>7, <1>8, <1>9, <1>10, <1>11,
           <1>12, <1>13 DEF ProcNext

LEMMA StepKeepsParts == FenceInv /\ [Next]_vars => FenceParts'
<1> SUFFICES ASSUME FenceInv, [Next]_vars PROVE FenceParts'
  OBVIOUS
<1> USE FieldTypes DEF FenceInv
<1>1. CASE \E p \in Procs : ProcNext(p)
  BY <1>1, ProcStepKeeps
<1>2. CASE \E s \in stray : StrayExecutes(s)
  <2>1. PICK s \in stray : StrayExecutes(s)
    BY <1>2
  <2>2. PICK w \in Workers, res \in {"held", "lost"} : Execute(s, w, res)
    BY <2>1 DEF StrayExecutes
  <2>3. s.kind \in Kinds /\ s.token \in Nat
    BY DEF TypeOK, Statements
  <2>4. s.kind = "release" =>
           /\ \A q \in Procs : sess[q].token = s.token => sess[q].deadline = 0
           /\ \A q \in Procs :
                 op[q].kind \in {"acquire", "renew"} => op[q].token # s.token
    BY DEF FenceParts, StrayAcquire, FreshStray, Speaks
  <2>5. RowMove
    BY <2>2, <2>3, <2>4, ExecuteMoves
  <2> QED BY <2>1, <2>5, Executes DEF StrayExecutes
<1>3. CASE Tick
  BY <1>3, Ticks DEF Tick
<1>4. CASE UNCHANGED vars
  BY <1>4, Executes DEF vars, RowMove
<1> QED BY <1>1, <1>2, <1>3, <1>4 DEF Next

(***************************************************************************)
(* Type correctness.                                                        *)
(***************************************************************************)
LEMMA PackIdType ==
    ASSUME NEW m \in Nat, NEW w \in Workers, NEW s \in 0 .. MaxSequence
    PROVE  PackId(m, w, s) \in Nat
<1> USE LayoutAssumption DEF Workers
<1>1. m * NumWorkers \in Nat
  OBVIOUS
<1>2. m * NumWorkers + w \in Nat
  BY <1>1
<1>3. (m * NumWorkers + w) * (MaxSequence + 1) \in Nat
  BY <1>2
<1> QED BY <1>3 DEF PackId

LEMMA ExecuteType ==
    ASSUME TypeOK, NEW s, NEW w \in Workers, NEW res, Execute(s, w, res), s.token \in Nat
    PROVE  row' \in [Workers -> Rows]
<1> USE CadenceAssumption
<1>1. [token |-> s.token, acquired |-> now, expires |-> now + TTL] \in Rows
  BY DEF Rows, TypeOK
<1>2. [row[w] EXCEPT !.expires = now + TTL] \in Rows
  <2>1. row[w] \in Rows /\ now \in Nat
    BY DEF TypeOK
  <2> QED BY <2>1 DEF Rows
<1>3. NoRow \in Rows
  BY DEF Rows, NoRow
<1> QED BY <1>1, <1>2, <1>3 DEF Execute, TypeOK

LEMMA TypeKept == ASSUME TypeOK, NEW p \in Procs, ProcNext(p) PROVE TypeOK'
<1> USE LayoutAssumption, CadenceAssumption, ClockAssumption, AttemptsAssumption
<1>0. /\ now \in Nat /\ issued \in Nat /\ NoOp \notin Statements
      /\ sess[p] \in Sessions /\ op[p] \in Statements \cup {NoOp}
      /\ 0 \in Workers /\ 1 \in Nat /\ NoSess \in Sessions
  BY DEF TypeOK, NoOp, NoSess, Sessions, Statements, Kinds, Workers
<1>1. ASSUME NEW s \in Nat, NEW n \in Nat, SendAcquire(p, n, s)
      PROVE  op' \in [Procs -> Statements \cup {NoOp}] /\ issued' \in Nat
  <2> DEFINE new == [kind |-> "acquire", token |-> issued + 1, worker |-> 0,
                     sent |-> s, tries |-> n, res |-> "pending"]
  <2>1. new \in Statements
    BY <1>0 DEF Statements, Kinds, Results
  <2> HIDE DEF new
  <2>2. op' = [op EXCEPT ![p] = new] /\ issued' \in Nat
    BY <1>0, <1>1 DEF SendAcquire, new
  <2> QED BY <2>1, <2>2 DEF TypeOK
<1>2. ASSUME NEW k \in Kinds,
             op' = [op EXCEPT ![p] = [kind |-> k, token |-> sess[p].token,
                                      worker |-> sess[p].worker, sent |-> now,
                                      tries |-> 1, res |-> "pending"]]
      PROVE  op' \in [Procs -> Statements \cup {NoOp}]
  <2> DEFINE new == [kind |-> k, token |-> sess[p].token, worker |-> sess[p].worker,
                     sent |-> now, tries |-> 1, res |-> "pending"]
  <2>1. new \in Statements
    BY <1>0 DEF Statements, Sessions, Results
  <2> HIDE DEF new
  <2>2. op' = [op EXCEPT ![p] = new]
    BY <1>2 DEF new
  <2> QED BY <2>1, <2>2 DEF TypeOK
<1>3. ASSUME op' = [op EXCEPT ![p] = NoOp]
      PROVE  op' \in [Procs -> Statements \cup {NoOp}]
  BY <1>3 DEF TypeOK
<1>4. ASSUME NEW d \in Int, sess' = [sess EXCEPT ![p].deadline = d]
      PROVE  sess' \in [Procs -> Sessions]
  <2>1. [sess[p] EXCEPT !.deadline = d] \in Sessions
    BY <1>0 DEF Sessions
  <2> QED BY <1>4, <2>1 DEF TypeOK
<1>5. ASSUME sess' = [sess EXCEPT ![p] = NoSess]
      PROVE  sess' \in [Procs -> Sessions]
  BY <1>0, <1>5 DEF TypeOK
<1>6. ASSUME Abandon(p)
      PROVE  \A s \in stray' : s \in Statements /\ s.res = "pending"
  BY <1>0, <1>6 DEF Abandon, TypeOK, NoOp
<1>7. ASSUME NEW m \in Nat, NEW s \in 0 .. MaxSequence, Emit(p, m, s)
      PROVE  sess' \in [Procs -> Sessions] /\ minted' \in Seq(Mints)
  <2> DEFINE new == [id |-> PackId(m, sess[p].worker, s), millis |-> m,
                     worker |-> sess[p].worker, seq |-> s,
                     token |-> sess[p].token, at |-> now]
  <2>1. sess[p].worker \in Workers /\ sess[p].token \in Nat
    BY <1>0 DEF Sessions
  <2>2. PackId(m, sess[p].worker, s) \in Nat \ {0}
    <3>1. PackId(m, sess[p].worker, s) \in Nat
      BY <2>1, PackIdType
    <3>2. PackId(m, sess[p].worker, s) > 0
      BY <1>7 DEF Emit
    <3> QED BY <3>1, <3>2
  <2>3. new \in Mints
    BY <1>0, <2>1, <2>2 DEF Mints
  <2> HIDE DEF new
  <2>4. minted' = Append(minted, new)
    BY <1>7 DEF Emit, new
  <2>5. [sess[p] EXCEPT !.last = m, !.seq = s] \in Sessions
    BY <1>0 DEF Sessions
  <2>6. sess' = [sess EXCEPT ![p] = [sess[p] EXCEPT !.last = m, !.seq = s]]
    BY <1>7 DEF Emit
  <2> QED BY <2>3, <2>4, <2>5, <2>6 DEF TypeOK
<1>8. op[p].kind # "none" => op[p] \in Statements
  BY <1>0 DEF NoOp
<1>9. CASE Start(p) \/ AcquireRetries(p)
  BY <1>0, <1>1, <1>8, <1>9 DEF Start, AcquireRetries, TypeOK, Statements
<1>10. CASE BeatLost(p)
  <2>1. op' \in [Procs -> Statements \cup {NoOp}] /\ issued' \in Nat
    BY <1>0, <1>1, <1>10 DEF BeatLost
  <2>2. sess' \in [Procs -> Sessions]
    <3>1. sess' = [sess EXCEPT ![p].deadline = 0] /\ 0 \in Int
      BY <1>10 DEF BeatLost
    <3> QED BY <1>4, <3>1, Zenon
  <2> QED BY <1>10, <2>1, <2>2 DEF BeatLost, TypeOK
<1>11. CASE Beat(p)
  BY <1>2, <1>11 DEF Beat, TypeOK, Kinds
<1>12. CASE Stop(p)
  <2>1. op' \in [Procs -> Statements \cup {NoOp}]
    BY <1>2, <1>12 DEF Stop, Kinds
  <2>2. sess' \in [Procs -> Sessions]
    <3>1. sess' = [sess EXCEPT ![p].deadline = 0] /\ 0 \in Int
      BY <1>12 DEF Stop
    <3> QED BY <1>4, <3>1, Zenon
  <2> QED BY <1>12, <2>1, <2>2 DEF Stop, TypeOK
<1>13. CASE AcquireFails(p) \/ BeatFails(p)
  BY <1>3, <1>6, <1>13 DEF AcquireFails, BeatFails, TypeOK
<1>14. CASE Stopped(p)
  BY <1>3, <1>5, <1>6, <1>14 DEF Stopped, TypeOK
<1>15. CASE Crash(p)
  BY <1>3, <1>5, <1>6, <1>15 DEF Crash, TypeOK
<1>16. CASE AcquireSucceeds(p)
  <2>1. op[p] \in Statements
    BY <1>8, <1>16 DEF AcquireSucceeds
  <2> DEFINE new == [token |-> op[p].token, worker |-> op[p].worker,
                     deadline |-> LocalDeadline(op[p]), last |-> -1, seq |-> 0]
  <2>2. new \in Sessions
    BY <2>1 DEF Sessions, Statements, LocalDeadline
  <2> HIDE DEF new
  <2>3. sess' = [sess EXCEPT ![p] = new]
    BY <1>16 DEF AcquireSucceeds, new
  <2> QED BY <1>3, <1>16, <2>2, <2>3 DEF AcquireSucceeds, TypeOK
<1>17. CASE BeatHeld(p)
  <2>1. LocalDeadline(op[p]) \in Int
    BY <1>8, <1>17 DEF BeatHeld, LocalDeadline, Statements
  <2> QED BY <1>3, <1>4, <1>17, <2>1 DEF BeatHeld, TypeOK
<1>18. CASE Mint(p) \/ SpinMint(p)
  <2>1. Wall(p) \in Int /\ sess[p].last \in Int /\ sess[p].last >= -1
        /\ sess[p].seq \in 0 .. MaxSequence
    BY <1>0 DEF Wall, TypeOK, Sessions
  <2>2. PICK m \in Nat, s \in 0 .. MaxSequence : Emit(p, m, s)
    BY <1>18, <2>1 DEF Mint, SpinMint, SequenceLeft
  <2>3. sess' \in [Procs -> Sessions] /\ minted' \in Seq(Mints)
    BY <1>7, <2>2
  <2> QED BY <1>18, <2>3 DEF Mint, SpinMint, TypeOK
<1>19. CASE SpinBegin(p) \/ SpinExpires(p)
  BY <1>19 DEF SpinBegin, SpinExpires, TypeOK
<1>20. CASE NTPStep(p)
  BY <1>20 DEF NTPStep, TypeOK
<1>21. CASE DatabaseExecutes(p)
  <2>1. PICK w \in Workers, res \in {"held", "lost"} :
            /\ Execute(op[p], w, res)
            /\ op' = [op EXCEPT ![p].worker = w, ![p].res = res]
    BY <1>21 DEF DatabaseExecutes
  <2>2. op[p] \in Statements
    BY <1>0, <1>21 DEF DatabaseExecutes, NoOp
  <2>3. [op[p] EXCEPT !.worker = w, !.res = res] \in Statements
    BY <2>2 DEF Statements, Results
  <2>4. op' = [op EXCEPT ![p] = [op[p] EXCEPT !.worker = w, !.res = res]]
    BY <2>1
  <2>5. op' \in [Procs -> Statements \cup {NoOp}]
    BY <2>3, <2>4 DEF TypeOK
  <2>6. row' \in [Workers -> Rows]
    BY <2>1, <2>2, ExecuteType DEF Statements
  <2> QED BY <1>21, <2>5, <2>6 DEF DatabaseExecutes, TypeOK
<1> QED BY <1>9, <1>10, <1>11, <1>12, <1>13, <1>14, <1>15, <1>16, <1>17, <1>18,
           <1>19, <1>20, <1>21 DEF ProcNext

LEMMA Initially == Init => FenceInv
<1> SUFFICES ASSUME Init PROVE FenceInv
  OBVIOUS
<1> USE LayoutAssumption, CadenceAssumption, ClockAssumption
<1>1. 0 \in Workers /\ NoRow \in Rows /\ NoSess \in Sessions
  BY DEF Workers, NoRow, NoSess, Rows, Sessions
<1>2. off \in [Procs -> -Skew .. 0]
  BY DEF Init
<1>3. TypeOK
  BY <1>1, <1>2 DEF Init, TypeOK
<1>4. /\ now = 0 /\ issued = 0 /\ stray = {} /\ Len(minted) = 0
      /\ \A p \in Procs : /\ sess[p].token = 0 /\ sess[p].deadline = 0
                          /\ op[p].kind = "none" /\ op[p].token = 0 /\ op[p].sent = 0
      /\ \A w \in Workers : row[w].acquired = 0
  BY DEF Init, NoRow, NoSess, NoOp
<1>5. FenceParts
  BY <1>4 DEF FenceParts, SessTokens, OpTokens, StrayTokens, MintTokens, OpSent, StraySent,
       RowAcquired, Deadlines, OneOwner, Speaks, ReleaseHalts, LiveRuns,
       NamedOp, NamedStray, FreshSess, FreshOp, FreshStray, FreshMint,
       StrayAcquire, StrayMint, FencedReply, Fenced, LeaseLive
<1> QED BY <1>3, <1>5 DEF FenceInv

LEMMA TypeStep == TypeOK /\ [Next]_vars => TypeOK'
<1> SUFFICES ASSUME TypeOK, [Next]_vars PROVE TypeOK'
  OBVIOUS
<1>1. CASE \E p \in Procs : ProcNext(p)
  BY <1>1, TypeKept
<1>2. CASE \E s \in stray : StrayExecutes(s)
  <2>1. PICK s \in stray : StrayExecutes(s)
    BY <1>2
  <2>2. PICK w \in Workers, res \in {"held", "lost"} : Execute(s, w, res)
    BY <2>1 DEF StrayExecutes
  <2>3. row' \in [Workers -> Rows]
    BY <2>2, ExecuteType DEF TypeOK, Statements
  <2> QED BY <2>1, <2>3 DEF StrayExecutes, TypeOK
<1>3. CASE Tick
  BY <1>3 DEF Tick, TypeOK
<1>4. CASE UNCHANGED vars
  BY <1>4 DEF vars, TypeOK
<1> QED BY <1>1, <1>2, <1>3, <1>4 DEF Next

\* Every reachable state is well typed: in particular the 12-bit sequence of
\* generator.go never overflows and every id Next returns is positive.
THEOREM TypeCorrect == Spec => []TypeOK
<1>1. Init => TypeOK
  BY Initially DEF FenceInv
<1> QED BY <1>1, TypeStep, PTL DEF Spec

LEMMA FenceInvariant == Spec => []FenceInv
<1>1. FenceInv /\ [Next]_vars => FenceInv'
  BY TypeStep, StepKeepsParts DEF FenceInv
<1> QED BY <1>1, Initially, PTL DEF Spec

\* The fence of workerlease/manager.go holds for any number of processes,
\* worker ids, lost answers, abandoned statements, crashes and restarts.
THEOREM FenceHolds == Spec => []Fenced
<1>1. FenceInv => Fenced
  BY DEF FenceInv, FenceParts
<1> QED BY <1>1, FenceInvariant, PTL

----------------------------------------------------------------------------
(***************************************************************************)
(* Ids.  The argument: every mint happened either under the token its       *)
(* worker's row carries now, or more than Skew before that row was (or can  *)
(* next be) claimed.                                                        *)
(***************************************************************************)
MintFacts ==
    \A i \in 1 .. Len(minted) :
        /\ minted[i].worker \in Workers /\ minted[i].token \in Nat
        /\ minted[i].millis \in Nat /\ minted[i].seq \in 0 .. MaxSequence
        /\ minted[i].at \in Nat

GenFacts ==
    \A p \in Procs : /\ sess[p].last \in Int /\ sess[p].last >= -1
                     /\ sess[p].seq \in 0 .. MaxSequence

(***************************************************************************)
(* The inductive invariant.                                                 *)
(***************************************************************************)
Stamped ==
    \A i \in 1 .. Len(minted) :
        /\ minted[i].millis <= minted[i].at /\ minted[i].at <= now
        /\ minted[i].token # 0

Packed ==
    \A i \in 1 .. Len(minted) :
        minted[i].id = PackId(minted[i].millis, minted[i].worker, minted[i].seq)

\* A release is sent after the last mint of its session.
OpAfter ==
    \A p \in Procs, i \in 1 .. Len(minted) :
        (op[p].kind = "release" /\ minted[i].token = op[p].token)
            => minted[i].at <= op[p].sent

StrayAfter ==
    \A s \in stray, i \in 1 .. Len(minted) :
        (s.kind = "release" /\ minted[i].token = s.token) => minted[i].at <= s.sent

\* A generator remembers the latest id of its own session.
Remembered ==
    \A p \in Procs, i \in 1 .. Len(minted) : minted[i].token = sess[p].token =>
        /\ minted[i].worker = sess[p].worker
        /\ \/ minted[i].millis < sess[p].last
           \/ minted[i].millis = sess[p].last /\ minted[i].seq <= sess[p].seq

\* A mint belongs to the row's current token or lies safely before it.
RetiredMint(m, table, time) ==
    \/ /\ table[m.worker].token = m.token
       /\ m.at + Margin < table[m.worker].expires
    \/ /\ table[m.worker].token \notin {0, m.token}
       /\ m.at + Skew < table[m.worker].acquired
    \/ table[m.worker].token = 0 /\ m.at + Skew < time

Retired == \A i \in 1 .. Len(minted) : RetiredMint(minted[i], row, now)

Before(a, b) == a.millis < b.millis \/ (a.millis = b.millis /\ a.seq < b.seq)

Increasing ==
    \A i, j \in 1 .. Len(minted) :
        (i < j /\ minted[i].worker = minted[j].worker) => Before(minted[i], minted[j])

IdParts == /\ Stamped /\ Packed /\ OpAfter /\ StrayAfter /\ Remembered /\ Retired
           /\ Increasing

IdInv == FenceInv /\ IdParts

LEMMA IdTypes == TypeOK => MintFacts /\ GenFacts
<1> SUFFICES ASSUME TypeOK PROVE MintFacts /\ GenFacts
  OBVIOUS
<1>1. \A i \in 1 .. Len(minted) : minted[i] \in Mints
  BY DEF TypeOK
<1>2. \A p \in Procs : sess[p] \in Sessions
  BY DEF TypeOK
<1> QED BY <1>1, <1>2 DEF MintFacts, GenFacts, Mints, Sessions

(***************************************************************************)
(* Steps that mint nothing.                                                 *)
(***************************************************************************)

\* No session gains a history that is not its own ...
KeepsGenerators ==
    \A q \in Procs :
        \/ /\ sess'[q].token = sess[q].token /\ sess'[q].worker = sess[q].worker
           /\ sess'[q].last = sess[q].last /\ sess'[q].seq = sess[q].seq
        \/ sess'[q].token = 0
        \/ \A i \in 1 .. Len(minted) : minted[i].token # sess'[q].token

\* ... and no release is older than it was.
KeepsReleases ==
    /\ \A q \in Procs : op'[q].kind = "release" =>
            \/ op'[q].sent = now
            \/ /\ op[q].kind = "release" /\ op'[q].token = op[q].token
               /\ op'[q].sent = op[q].sent
    /\ \A s \in stray' : s \in stray \/ \E q \in Procs : s = op[q]

LEMMA Unminting ==
    ASSUME MintFacts, IdParts, KeepsGenerators, KeepsReleases, minted' = minted,
           now \in Nat, now' = now \/ now' = now + 1, Retired'
    PROVE  IdParts'
<1> USE DEF IdParts
<1>1. Stamped'
  BY DEF Stamped, MintFacts
<1>2. Packed' /\ Increasing'
  BY DEF Packed, Increasing, Before, PackId
<1>3. OpAfter'
  BY DEF OpAfter, KeepsReleases, Stamped, MintFacts
<1>4. StrayAfter'
  BY DEF StrayAfter, OpAfter, KeepsReleases
<1>5. Remembered'
  BY DEF Remembered, KeepsGenerators, Stamped
<1> QED BY <1>1, <1>2, <1>3, <1>4, <1>5

LEMMA ExecuteRetires ==
    ASSUME SkewBound, TypeOK, FenceParts, MintFacts, IdParts, now' = now,
           minted' = minted, NEW s, NEW w \in Workers, NEW res, Execute(s, w, res),
           s.token \in Nat \ {0}, s.sent \in Nat, s.kind \in Kinds,
           s.kind = "acquire" => \A i \in 1 .. Len(minted) : minted[i].token # s.token,
           s.kind = "release" => \A i \in 1 .. Len(minted) :
               minted[i].token = s.token => minted[i].at <= s.sent
    PROVE  Retired'
<1> SUFFICES ASSUME NEW i \in 1 .. Len(minted) PROVE RetiredMint(minted[i], row', now)
  BY DEF Retired
<1> DEFINE m == minted[i]
<1>0. /\ m.worker \in Workers /\ m.token \in Nat /\ m.at \in Nat /\ RetiredMint(m, row, now)
      /\ m.at <= now /\ now \in Nat
      /\ row[m.worker].token \in Nat /\ row[m.worker].acquired \in Nat
      /\ row[m.worker].expires \in Nat /\ row[m.worker].acquired <= now
      /\ Margin \in Nat /\ Skew \in Nat /\ TTL \in Nat /\ TTL > Margin
      /\ Skew <= Margin /\ Skew < MinLatency /\ MinLatency \in Nat
      /\ now >= s.sent + MinLatency
  BY FieldTypes, CadenceAssumption, ClockAssumption
     DEF MintFacts, IdParts, Retired, Stamped, Fields, Clocks, RowFields, FenceParts,
         RowAcquired, SkewBound, Execute
<1> HIDE DEF m
<1>2. CASE row'[m.worker] = row[m.worker]
  BY <1>0, <1>2 DEF RetiredMint, m
<1>3. CASE s.kind = "acquire" /\ row'[m.worker] # row[m.worker]
  <2>1. /\ LowestFree(w) /\ m.worker = w
        /\ row'[w] = [token |-> s.token, acquired |-> now, expires |-> now + TTL]
    BY <1>0, <1>3 DEF Execute, TypeOK
  <2>2. m.token # s.token
    BY <1>3 DEF m
  <2>3. m.at + Skew < now
    <3>1. row[m.worker].token = 0 \/ row[m.worker].expires <= now
      BY <1>0, <2>1 DEF LowestFree, Unexpired
    <3>n. m.token # 0
      BY DEF IdParts, Stamped, m
    <3>2. CASE row[m.worker].token = m.token /\ m.at + Margin < row[m.worker].expires
      <4>1. row[m.worker].expires <= now
        BY <3>1, <3>2, <3>n
      <4> QED BY <1>0, <3>2, <4>1
    <3>3. CASE m.at + Skew < row[m.worker].acquired
      BY <1>0, <3>3
    <3> QED BY <1>0, <3>2, <3>3 DEF RetiredMint
  <2> QED BY <1>0, <2>1, <2>2, <2>3 DEF RetiredMint, m
<1>4. CASE s.kind = "renew" /\ row'[m.worker] # row[m.worker]
  <2>1. /\ m.worker = w
        /\ row'[w].token = row[w].token /\ row'[w].acquired = row[w].acquired
        /\ row'[w].expires = now + TTL
    BY <1>0, <1>4 DEF Execute, TypeOK, Rows
  <2> QED BY <1>0, <2>1 DEF RetiredMint, m
<1>5. CASE s.kind = "release" /\ row'[m.worker] # row[m.worker]
  <2>1. m.worker = w /\ row[w].token = s.token /\ row'[w] = NoRow
    BY <1>0, <1>5 DEF Execute, TypeOK
  <2>2. m.token = s.token => m.at <= s.sent
    BY <1>5 DEF m
  <2>3. m.at + Skew < now
    BY <1>0, <2>1, <2>2 DEF RetiredMint
  <2> QED BY <1>0, <2>1, <2>3 DEF RetiredMint, NoRow, m
<1> QED BY <1>2, <1>3, <1>4, <1>5 DEF Kinds

\* Steps of a process that neither mint nor execute a statement.
LEMMA QuietStep ==
    ASSUME IdInv, NEW p \in Procs, ProcNext(p), row' = row, minted' = minted, now' = now,
           KeepsGenerators, KeepsReleases
    PROVE  IdParts'
<1>1. MintFacts /\ now \in Nat
  BY IdTypes DEF IdInv, FenceInv, TypeOK
<1>2. Retired'
  BY DEF IdInv, IdParts, Retired, RetiredMint
<1> QED BY <1>1, <1>2, Unminting DEF IdInv

(***************************************************************************)
(* The step that mints.                                                     *)
(***************************************************************************)
LEMMA Minting ==
    ASSUME SkewBound, IdInv, NEW p \in Procs, LeaseLive(p),
           NEW millis \in Nat, NEW s \in 0 .. MaxSequence, Emit(p, millis, s),
           millis <= now, now - Skew <= millis,
           \/ millis > sess[p].last
           \/ millis = sess[p].last /\ s > sess[p].seq,
           now' = now, row' = row, op' = op, stray' = stray
    PROVE  IdParts'
<1> DEFINE n == Len(minted) + 1
           m == [id |-> PackId(millis, sess[p].worker, s), millis |-> millis,
                 worker |-> sess[p].worker, seq |-> s,
                 token |-> sess[p].token, at |-> now]
<1> USE DEF IdInv, FenceInv
<1>0. /\ now \in Nat /\ Len(minted) \in Nat
      /\ minted' = Append(minted, m) /\ minted \in Seq(Mints)
      /\ MintFacts /\ GenFacts /\ Fields
  BY IdTypes, FieldTypes DEF Emit, TypeOK
<1>1. /\ Len(minted') = n /\ minted'[n] = m
      /\ \A i \in 1 .. Len(minted) : minted'[i] = minted[i]
  BY <1>0
<1>2. /\ m.id = PackId(m.millis, m.worker, m.seq) /\ m.millis = millis /\ m.seq = s
      /\ m.worker = sess[p].worker /\ m.token = sess[p].token /\ m.at = now
  OBVIOUS
<1> HIDE DEF m
<1>a. /\ sess[p].worker \in Workers /\ sess[p].deadline \in Int
      /\ now < sess[p].deadline /\ sess[p].deadline > 0
  BY <1>0 DEF LeaseLive, Fields, SessFields
<1>3. /\ sess[p].token # 0 /\ sess[p].worker \in Workers /\ sess[p].deadline \in Int
      /\ row[m.worker].token = m.token
      /\ sess[p].deadline + Margin <= row[m.worker].expires
      /\ row[m.worker].acquired <= now /\ row[m.worker].acquired \in Nat
      /\ row[m.worker].expires \in Nat /\ Margin \in Nat /\ Skew \in Nat
      /\ now < sess[p].deadline
  BY <1>0, <1>2, <1>a, CadenceAssumption, ClockAssumption
     DEF FenceParts, Fenced, LiveRuns, RowAcquired, LeaseLive, Fields, RowFields
<1>4. \A q \in Procs :
        /\ sess'[q].token = sess[q].token /\ sess'[q].worker = sess[q].worker
        /\ sess'[q].last = IF q = p THEN millis ELSE sess[q].last
        /\ sess'[q].seq = IF q = p THEN s ELSE sess[q].seq
  BY DEF Emit, TypeOK, Sessions
<1>5. Stamped'
  BY <1>0, <1>1, <1>2, <1>3 DEF IdParts, Stamped
<1>6. Packed'
  BY <1>0, <1>1, <1>2 DEF IdParts, Packed, PackId
<1>7. OpAfter'
  <2>1. \A q \in Procs : op[q].kind = "release" => op[q].token # m.token
    BY <1>0, <1>2, <1>3 DEF FenceParts, Speaks, OneOwner, ReleaseHalts
  <2> QED BY <1>0, <1>1, <2>1 DEF IdParts, OpAfter
<1>8. StrayAfter'
  <2>1. \A r \in stray : r.kind = "release" => r.token # m.token
    BY <1>2 DEF FenceParts, StrayAcquire
  <2> QED BY <1>0, <1>1, <2>1 DEF IdParts, StrayAfter
<1>9. Remembered'
  <2>1. ASSUME NEW q \in Procs, NEW i \in 1 .. Len(minted),
               minted[i].token = sess'[q].token
        PROVE  /\ minted[i].worker = sess'[q].worker
               /\ \/ minted[i].millis < sess'[q].last
                  \/ minted[i].millis = sess'[q].last /\ minted[i].seq <= sess'[q].seq
    BY <1>0, <1>4, <2>1 DEF IdParts, Remembered, MintFacts, GenFacts
  <2>2. ASSUME NEW q \in Procs, m.token = sess'[q].token
        PROVE  /\ m.worker = sess'[q].worker
               /\ m.millis = sess'[q].last /\ m.seq <= sess'[q].seq
    <3>1. q = p
      BY <1>2, <1>3, <1>4, <2>2 DEF FenceParts, OneOwner
    <3> QED BY <1>2, <1>4, <3>1
  <2> QED BY <1>0, <1>1, <2>1, <2>2 DEF Remembered
<1>10. Retired'
  <2>1. \A i \in 1 .. Len(minted) : RetiredMint(minted'[i], row, now)
    BY <1>1 DEF IdParts, Retired
  <2>a. m.at + Margin < row[m.worker].expires
    BY <1>0, <1>2, <1>3
  <2>2. RetiredMint(m, row, now)
    BY <1>3, <2>a DEF RetiredMint
  <2> QED BY <1>0, <1>1, <2>1, <2>2 DEF Retired
<1>11. Increasing'
  <2>1. ASSUME NEW i \in 1 .. Len(minted), minted[i].worker = m.worker
        PROVE  Before(minted[i], m)
    <3>0. /\ minted[i].millis \in Nat /\ minted[i].at \in Nat /\ minted[i].token \in Nat
          /\ minted[i].seq \in Nat /\ minted[i].millis <= minted[i].at
          /\ RetiredMint(minted[i], row, now)
      BY <1>0 DEF MintFacts, IdParts, Stamped, Retired
    <3>1. CASE minted[i].token = m.token
      <4>1. \/ minted[i].millis < sess[p].last
            \/ minted[i].millis = sess[p].last /\ minted[i].seq <= sess[p].seq
        BY <1>2, <3>1 DEF IdParts, Remembered
      <4> QED BY <1>0, <1>2, <3>0, <4>1 DEF Before, GenFacts
    <3>2. CASE minted[i].token # m.token
      <4>1. minted[i].at + Skew < row[m.worker].acquired
        BY <1>2, <1>3, <2>1, <3>0, <3>2 DEF RetiredMint
      <4> QED BY <1>0, <1>2, <1>3, <3>0, <4>1 DEF Before
    <3> QED BY <3>1, <3>2
  <2>2. ASSUME NEW i \in 1 .. n, NEW j \in 1 .. n, i < j,
               minted'[i].worker = minted'[j].worker
        PROVE  Before(minted'[i], minted'[j])
    <3>1. i \in 1 .. Len(minted)
      BY <1>0, <2>2
    <3>2. CASE j = n
      BY <1>1, <2>1, <2>2, <3>1, <3>2
    <3>3. CASE j \in 1 .. Len(minted)
      BY <1>1, <2>2, <3>1, <3>3 DEF IdParts, Increasing
    <3> QED BY <1>0, <3>2, <3>3
  <2> QED BY <1>1, <2>2 DEF Increasing, Before
<1> QED BY <1>5, <1>6, <1>7, <1>8, <1>9, <1>10, <1>11 DEF IdParts

(***************************************************************************)
(* Every action, in turn.                                                   *)
(***************************************************************************)
LEMMA ProcStepMints ==
    ASSUME SkewBound, IdInv, NEW p \in Procs, ProcNext(p) PROVE IdParts'
<1> USE DEF IdInv, FenceInv
<1>0. MintFacts /\ GenFacts /\ Fields /\ sess[p] \in Sessions
  BY IdTypes, FieldTypes DEF TypeOK
<1>1. ASSUME KeepsGenerators, KeepsReleases, row' = row, minted' = minted, now' = now
      PROVE  IdParts'
  BY <1>1, QuietStep
<1>r. ASSUME \A q \in Procs : q # p => op'[q] = op[q],
             \/ op'[p].kind # "release"
             \/ op'[p].sent = now,
             \A s \in stray' : s \in stray \/ s = op[p]
      PROVE  KeepsReleases
  BY <1>r DEF KeepsReleases
<1>2. CASE Start(p) \/ AcquireRetries(p) \/ Beat(p)
  <2>1. KeepsGenerators
    BY <1>2 DEF Start, AcquireRetries, Beat, KeepsGenerators
  <2>2. /\ \A q \in Procs : q # p => op'[q] = op[q]
        /\ op'[p].kind # "release"
    BY <1>2 DEF Start, AcquireRetries, Beat, SendAcquire, TypeOK
  <2>3. KeepsReleases
    BY <1>r, <1>2, <2>2 DEF Start, AcquireRetries, Beat
  <2> QED BY <1>1, <1>2, <2>1, <2>3 DEF Start, AcquireRetries, Beat
<1>d. ASSUME op' = [op EXCEPT ![p] = NoOp], \A s \in stray' : s \in stray \/ s = op[p]
      PROVE  KeepsReleases
  <2>1. (\A q \in Procs : q # p => op'[q] = op[q]) /\ op'[p].kind # "release"
    BY <1>d DEF TypeOK, NoOp
  <2> QED BY <1>r, <1>d, <2>1
<1>a. CASE AcquireFails(p) \/ BeatFails(p)
  <2>1. KeepsGenerators
    BY <1>a DEF AcquireFails, BeatFails, KeepsGenerators
  <2>2. KeepsReleases
    BY <1>a, <1>d DEF AcquireFails, BeatFails, Abandon
  <2> QED BY <1>1, <1>a, <2>1, <2>2 DEF AcquireFails, BeatFails
<1>h. ASSUME NEW d, sess' = [sess EXCEPT ![p].deadline = d]
      PROVE  KeepsGenerators
  <2>1. \A q \in Procs : q # p => sess'[q] = sess[q]
    BY <1>h DEF TypeOK
  <2>2. sess'[p] = [sess[p] EXCEPT !.deadline = d]
    BY <1>h DEF TypeOK
  <2>3. /\ sess'[p].token = sess[p].token /\ sess'[p].worker = sess[p].worker
        /\ sess'[p].last = sess[p].last /\ sess'[p].seq = sess[p].seq
    BY <1>0, <2>2 DEF Sessions
  <2> QED BY <2>1, <2>3 DEF KeepsGenerators
<1>3. CASE BeatLost(p) \/ Stop(p) \/ BeatHeld(p)
  <2>1. KeepsGenerators
    BY <1>3, <1>h DEF BeatLost, Stop, BeatHeld
  <2>2. /\ \A q \in Procs : q # p => op'[q] = op[q]
        /\ op'[p].kind # "release" \/ op'[p].sent = now
    BY <1>3 DEF BeatLost, Stop, BeatHeld, SendAcquire, TypeOK, NoOp
  <2>3. KeepsReleases
    BY <1>r, <1>3, <2>2 DEF BeatLost, Stop, BeatHeld
  <2> QED BY <1>1, <1>3, <2>1, <2>3 DEF BeatLost, Stop, BeatHeld
<1>4. CASE Stopped(p) \/ Crash(p)
  <2>1. KeepsGenerators
    BY <1>4 DEF Stopped, Crash, KeepsGenerators, TypeOK, NoSess
  <2>2. KeepsReleases
    BY <1>4, <1>d DEF Stopped, Crash, Abandon
  <2> QED BY <1>1, <1>4, <2>1, <2>2 DEF Stopped, Crash
<1>5. CASE AcquireSucceeds(p)
  <2>1. KeepsGenerators
    <3>1. \A q \in Procs : q # p => sess'[q] = sess[q]
      BY <1>5 DEF AcquireSucceeds, TypeOK
    <3>2. sess'[p].token = op[p].token
      BY <1>5 DEF AcquireSucceeds, TypeOK
    <3>3. \A i \in 1 .. Len(minted) : minted[i].token # op[p].token
      BY <1>5 DEF AcquireSucceeds, FenceParts, FreshMint
    <3> QED BY <3>1, <3>2, <3>3 DEF KeepsGenerators
  <2>2. KeepsReleases
    BY <1>5 DEF AcquireSucceeds, KeepsReleases, TypeOK, NoOp
  <2> QED BY <1>1, <1>5, <2>1, <2>2 DEF AcquireSucceeds
<1>6. CASE SpinBegin(p) \/ SpinExpires(p) \/ NTPStep(p)
  BY <1>1, <1>6 DEF SpinBegin, SpinExpires, NTPStep, KeepsGenerators, KeepsReleases
<1>7. CASE Mint(p) \/ SpinMint(p)
  <2>1. /\ Wall(p) \in Int /\ Wall(p) <= now /\ now - Skew <= Wall(p)
        /\ sess[p].last \in Int /\ sess[p].last >= -1 /\ sess[p].seq \in 0 .. MaxSequence
    BY <1>0, ClockAssumption DEF Wall, TypeOK, GenFacts
  <2>2. PICK s \in 0 .. MaxSequence :
            /\ Emit(p, Wall(p), s) /\ Wall(p) >= 0
            /\ \/ Wall(p) > sess[p].last
               \/ Wall(p) = sess[p].last /\ s > sess[p].seq
    BY <1>7, <2>1, LayoutAssumption DEF Mint, SpinMint, SequenceLeft
  <2>3. /\ LeaseLive(p) /\ now' = now /\ row' = row /\ op' = op /\ stray' = stray
    BY <1>7 DEF Mint, SpinMint
  <2> QED BY <2>1, <2>2, <2>3, Minting
<1>8. CASE DatabaseExecutes(p)
  <2>1. PICK w \in Workers, res \in {"held", "lost"} :
            /\ Execute(op[p], w, res)
            /\ op' = [op EXCEPT ![p].worker = w, ![p].res = res]
    BY <1>8 DEF DatabaseExecutes
  <2>2. op[p] \in Statements
    BY <1>8 DEF DatabaseExecutes, TypeOK, NoOp
  <2>3. op[p].kind \in Kinds /\ op[p].token \in Nat \ {0} /\ op[p].sent \in Nat
    BY <2>2 DEF Statements, Kinds, FenceParts, NamedOp
  <2>4. Retired'
    BY <1>0, <1>8, <2>1, <2>3, ExecuteRetires
       DEF DatabaseExecutes, FenceParts, FreshMint, IdParts, OpAfter
  <2>5. KeepsReleases
    BY <1>8, <2>1, <2>2 DEF DatabaseExecutes, KeepsReleases, TypeOK, Statements
  <2>6. KeepsGenerators
    BY <1>8 DEF DatabaseExecutes, KeepsGenerators
  <2> QED BY <1>0, <1>8, <2>4, <2>5, <2>6, Unminting DEF DatabaseExecutes, TypeOK
<1> QED BY <1>2, <1>a, <1>3, <1>4, <1>5, <1>6, <1>7, <1>8 DEF ProcNext

LEMMA StepMints == ASSUME SkewBound PROVE IdInv /\ [Next]_vars => IdParts'
<1> SUFFICES ASSUME IdInv, [Next]_vars PROVE IdParts'
  OBVIOUS
<1> USE DEF IdInv, FenceInv
<1>0. MintFacts /\ Fields /\ now \in Nat
  BY IdTypes, FieldTypes DEF TypeOK
<1>1. CASE \E p \in Procs : ProcNext(p)
  BY <1>1, ProcStepMints
<1>2. CASE \E s \in stray : StrayExecutes(s)
  <2>1. PICK s \in stray : StrayExecutes(s)
    BY <1>2
  <2>2. PICK w \in Workers, res \in {"held", "lost"} : Execute(s, w, res)
    BY <2>1 DEF StrayExecutes
  <2>3. s.kind \in Kinds /\ s.token \in Nat \ {0} /\ s.sent \in Nat
    BY DEF TypeOK, Statements, FenceParts, NamedStray
  <2>4. Retired'
    BY <1>0, <2>1, <2>2, <2>3, ExecuteRetires
       DEF StrayExecutes, FenceParts, StrayMint, IdParts, StrayAfter
  <2>5. KeepsReleases /\ KeepsGenerators
    BY <2>1 DEF StrayExecutes, KeepsReleases, KeepsGenerators
  <2> QED BY <1>0, <2>1, <2>4, <2>5, Unminting DEF StrayExecutes
<1>3. CASE Tick
  <2>1. KeepsReleases /\ KeepsGenerators
    BY <1>3 DEF Tick, KeepsReleases, KeepsGenerators
  <2>2. Retired'
    BY <1>0, <1>3, ClockAssumption DEF Tick, IdParts, Retired, RetiredMint, MintFacts
  <2> QED BY <1>0, <1>3, <2>1, <2>2, Unminting DEF Tick
<1>4. CASE UNCHANGED vars
  <2>1. KeepsReleases /\ KeepsGenerators
    BY <1>4 DEF vars, KeepsReleases, KeepsGenerators
  <2>2. Retired'
    BY <1>4 DEF vars, IdParts, Retired, RetiredMint
  <2> QED BY <1>0, <1>4, <2>1, <2>2, Unminting DEF vars
<1> QED BY <1>1, <1>2, <1>3, <1>4 DEF Next

LEMMA IdInvariant == ASSUME SkewBound PROVE Spec => []IdInv
<1>1. Init => IdInv
  <2>1. Init => IdParts
    BY DEF Init, IdParts, Stamped, Packed, OpAfter, StrayAfter, Remembered, Retired,
           Increasing
  <2> QED BY <2>1, Initially DEF IdInv
<1>2. IdInv /\ [Next]_vars => IdInv'
  BY StepMints, TypeStep, StepKeepsParts DEF IdInv, FenceInv
<1> QED BY <1>1, <1>2, PTL DEF Spec

(***************************************************************************)
(* Packing millis, worker and sequence loses nothing.                       *)
(***************************************************************************)
LEMMA Digits ==
    ASSUME NEW a \in Nat, NEW b \in Nat, NEW K \in Nat, NEW x \in 0 .. K - 1,
           NEW y \in Nat, a < b
    PROVE  a * K + x < b * K + y
<1> DEFINE d == b - (a + 1)
<1>1. d \in Nat /\ b = a + 1 + d
  OBVIOUS
<1>2. d * K \in Nat
  BY <1>1
<1>3. (a + 1 + d) * K = a * K + K + d * K
  BY <1>1
<1>4. a * K \in Nat
  OBVIOUS
<1> HIDE DEF d
<1> QED BY <1>1, <1>2, <1>3, <1>4

LEMMA PackOrder ==
    ASSUME NEW m1 \in Nat, NEW m2 \in Nat, NEW w1 \in Workers, NEW w2 \in Workers,
           NEW s1 \in 0 .. MaxSequence, NEW s2 \in 0 .. MaxSequence,
           \/ m1 < m2
           \/ m1 = m2 /\ w1 < w2
           \/ m1 = m2 /\ w1 = w2 /\ s1 < s2
    PROVE  PackId(m1, w1, s1) < PackId(m2, w2, s2)
<1> DEFINE a == m1 * NumWorkers + w1
           b == m2 * NumWorkers + w2
<1> USE LayoutAssumption DEF Workers
<1>1. a \in Nat /\ b \in Nat
  <2>1. m1 * NumWorkers \in Nat /\ m2 * NumWorkers \in Nat
    OBVIOUS
  <2> QED BY <2>1
<1>2. a < b \/ (a = b /\ s1 < s2)
  <2>1. CASE m1 < m2
    BY <2>1, Digits
  <2>2. CASE m1 = m2
    <3>1. m1 * NumWorkers \in Nat
      OBVIOUS
    <3> QED BY <2>2, <3>1
  <2> QED BY <2>1, <2>2
<1>3. CASE a < b
  <2>1. MaxSequence + 1 \in Nat /\ s1 \in 0 .. (MaxSequence + 1) - 1 /\ s2 \in Nat
    OBVIOUS
  <2> HIDE DEF a, b
  <2>2. a * (MaxSequence + 1) + s1 < b * (MaxSequence + 1) + s2
    BY <1>1, <1>3, <2>1, Digits
  <2> QED BY <2>2 DEF PackId, a, b
<1>4. CASE a = b /\ s1 < s2
  <2>1. a * (MaxSequence + 1) \in Nat
    BY <1>1
  <2> HIDE DEF a, b
  <2>2. a * (MaxSequence + 1) + s1 < b * (MaxSequence + 1) + s2
    BY <1>1, <1>4, <2>1
  <2> QED BY <2>2 DEF PackId, a, b
<1> QED BY <1>2, <1>3, <1>4

\* Next's promise, "strictly increasing for a given worker", across all the
\* processes that ever hold the worker id, whenever clocks obey SkewBound.
THEOREM WorkerIdsIncrease == ASSUME SkewBound PROVE Spec => []WorkerMonotone
<1>1. IdInv => WorkerMonotone
  <2> SUFFICES ASSUME IdInv, NEW i \in 1 .. Len(minted), NEW j \in 1 .. Len(minted),
                      i < j, minted[i].worker = minted[j].worker
               PROVE  minted[i].id < minted[j].id
    BY DEF WorkerMonotone
  <2>1. MintFacts
    BY IdTypes DEF IdInv, FenceInv
  <2>2. Before(minted[i], minted[j])
    BY DEF IdInv, IdParts, Increasing
  <2>3. PackId(minted[i].millis, minted[i].worker, minted[i].seq)
          < PackId(minted[j].millis, minted[j].worker, minted[j].seq)
    BY <2>1, <2>2, PackOrder DEF MintFacts, Before
  <2> QED BY <2>3 DEF IdInv, IdParts, Packed
<1> QED BY <1>1, IdInvariant, PTL

\* No two ids minted anywhere in the cluster are equal, whenever clocks obey
\* SkewBound: what worker_lease and generator.go exist for.
THEOREM IdsUnique == ASSUME SkewBound PROVE Spec => []NoDuplicateId
<1>1. IdInv => NoDuplicateId
  <2> SUFFICES ASSUME IdInv, NEW i \in 1 .. Len(minted), NEW j \in 1 .. Len(minted),
                      i < j
               PROVE  minted[i].id # minted[j].id
    BY DEF NoDuplicateId
  <2> DEFINE a == minted[i]
             b == minted[j]
  <2>1. /\ a.millis \in Nat /\ a.worker \in Workers /\ a.seq \in 0 .. MaxSequence
        /\ b.millis \in Nat /\ b.worker \in Workers /\ b.seq \in 0 .. MaxSequence
    BY IdTypes DEF IdInv, FenceInv, MintFacts
  <2>2. a.id = PackId(a.millis, a.worker, a.seq) /\ b.id = PackId(b.millis, b.worker, b.seq)
    BY DEF IdInv, IdParts, Packed
  <2>3. a.worker = b.worker => Before(a, b)
    BY DEF IdInv, IdParts, Increasing
  <2> HIDE DEF a, b
  <2>4. a.worker \in Int /\ b.worker \in Int
    BY <2>1, LayoutAssumption DEF Workers
  <2>5. \/ a.millis < b.millis
        \/ a.millis = b.millis /\ a.worker < b.worker
        \/ a.millis = b.millis /\ a.worker = b.worker /\ a.seq < b.seq
        \/ b.millis < a.millis
        \/ b.millis = a.millis /\ b.worker < a.worker
    BY <2>1, <2>3, <2>4 DEF Before
  <2>6. PackId(a.millis, a.worker, a.seq) \in Nat /\ PackId(b.millis, b.worker, b.seq) \in Nat
    BY <2>1, PackIdType
  <2>7. \/ PackId(a.millis, a.worker, a.seq) < PackId(b.millis, b.worker, b.seq)
        \/ PackId(b.millis, b.worker, b.seq) < PackId(a.millis, a.worker, a.seq)
    BY <2>1, <2>5, PackOrder
  <2> QED BY <2>2, <2>6, <2>7 DEF a, b
<1> QED BY <1>1, IdInvariant, PTL
============================================================================

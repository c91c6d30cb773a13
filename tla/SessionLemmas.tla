---------------------------- MODULE SessionLemmas ----------------------------
(***************************************************************************)
(* What the steps of Session preserve.  SessionConnectProofs and           *)
(* SessionSendProofs build their invariants on these lemmas.               *)
(***************************************************************************)
EXTENDS Session, TLAPS

(* The strengthening that makes BuffersMatchSession inductive: what the    *)
(* egress thread has already copied when it is inside update_session_header*)
(* or between the two updates.  A session id of -1 may have been written   *)
(* by disconnect() after the copy.                                         *)
BuffersInv ==
  /\ BuffersMatchSession
  /\ egressPc = "header_sid" => session_header_buffer_.term = leadership_term_id_
  /\ egressPc = "keepalive" =>
       /\ session_header_buffer_.term = leadership_term_id_
       /\ session_id_ # -1 => session_header_buffer_.sid = session_id_

(* disconnect() never has an attempt to spend on closing unless it has     *)
(* one left.                                                               *)
CloseInv == disconnectPc = "close" => closeLeft > 0

SessionInv == SessionTypeOK /\ BuffersInv /\ CloseInv

(* The initial fields are typed and the buffers match (there is no session). *)
LEMMA SessionInitLemma ==
  ASSUME SessionInit
  PROVE  SessionInv
<1>0. NoEvent \in Event
  BY DEF NoEvent, Event, EventCode
<1>1. /\ session_id_ \in Int /\ leadership_term_id_ \in Int
      /\ leader_member_id_ \in Int /\ redirected_to_member_id_ \in Int
      /\ session_header_buffer_ \in Buffer /\ keepalive_buffer_ \in Buffer
      /\ closeLeft \in 0..CloseAttempts
  BY CloseAttemptsAssumption DEF SessionInit, Buffer
<1>2. SessionTypeOK
  BY <1>0, <1>1, Zenon
  DEF SessionInit, SessionTypeOK, Publication, EgressPc, DisconnectPc
<1>3. BuffersInv /\ CloseInv
  BY DEF SessionInit, BuffersInv, BuffersMatchSession, CloseInv
<1> QED BY <1>2, <1>3 DEF SessionInv

(* A step that changes none of Session's variables. *)
LEMMA SessionStutter ==
  ASSUME SessionInv, UNCHANGED sessionVars
  PROVE  SessionInv'
<1> USE DEF sessionVars, fieldVars, bufferVars, egressVars, disconnectVars
<1>1. SessionTypeOK'
  BY DEF SessionInv, SessionTypeOK
<1>2. BuffersInv' /\ CloseInv'
  BY DEF SessionInv, BuffersInv, BuffersMatchSession, CloseInv
<1> QED BY <1>1, <1>2 DEF SessionInv

(* A step that leaves what BuffersInv is about alone. *)
LEMMA BuffersUntouched ==
  ASSUME BuffersInv,
         UNCHANGED <<session_id_, leadership_term_id_, bufferVars, egressPc>>
  PROVE  BuffersInv'
BY DEF BuffersInv, BuffersMatchSession, bufferVars

(* A step of connect() or of a sender: it writes neither the session id nor *)
(* the term, and leaves the egress thread and disconnect() where they are.  *)
LEMMA SessionFrame ==
  ASSUME SessionInv,
         UNCHANGED <<session_id_, leadership_term_id_, bufferVars, egressVars, disconnectVars>>,
         connected_' \in BOOLEAN, leader_member_id_' \in Int,
         redirected_to_member_id_' \in Int, ingress_publication_' \in Publication
  PROVE  SessionInv'
<1> USE DEF bufferVars, egressVars, disconnectVars
<1>1. SessionTypeOK'
  BY DEF SessionInv, SessionTypeOK
<1>2. BuffersInv' /\ CloseInv'
  BY BuffersUntouched DEF SessionInv, CloseInv
<1> QED BY <1>1, <1>2 DEF SessionInv

(* handle_session_event with any event. *)
LEMMA EventLemma ==
  ASSUME SessionInv, NEW e \in Event, handle_session_event(e)
  PROVE  SessionInv'
<1> SUFFICES SessionTypeOK' /\ BuffersInv'
  BY DEF SessionInv, CloseInv, handle_session_event, disconnectVars
<1> SessionTypeOK /\ BuffersInv
  BY DEF SessionInv
<1> USE DEF handle_session_event, bufferVars, egressVars, disconnectVars
<1>0. /\ e.sid \in Int /\ e.term \in Int /\ e.leader \in Int
      /\ egressPc = "idle"
  BY DEF Event
<1>1. CASE e.code = "OK" /\ handle_session_ok(e)
  <2>1. SessionTypeOK'
    BY <1>0, <1>1 DEF SessionTypeOK, handle_session_ok, EgressPc
  <2>2. BuffersInv'
    BY <1>0, <1>1 DEF BuffersInv, BuffersMatchSession, handle_session_ok
  <2> QED BY <2>1, <2>2
<1>2. CASE e.code = "REDIRECT" /\ handle_session_redirect(e)
  <2>1. SessionTypeOK'
    BY <1>0, <1>2 DEF SessionTypeOK, handle_session_redirect
  <2>2. BuffersInv'
    BY <1>0, <1>2 DEF BuffersInv, BuffersMatchSession, handle_session_redirect
  <2> QED BY <2>1, <2>2
<1>3. CASE /\ e.code \in {"ERROR", "AUTHENTICATION_REJECTED"}
           /\ handle_session_error(e)
  <2>1. SessionTypeOK'
    BY <1>0, <1>3 DEF SessionTypeOK, handle_session_error
  <2>2. BuffersInv'
    BY <1>0, <1>3 DEF BuffersInv, BuffersMatchSession, handle_session_error
  <2> QED BY <2>1, <2>2
<1>4. CASE e.code = "CLOSED" /\ handle_session_closed(e)
  <2>0. session_id_' \in Int
    BY <1>4 DEF handle_session_closed
  <2>1. SessionTypeOK'
    BY <1>4, <2>0, Zenon DEF SessionTypeOK, handle_session_closed
  <2>2. BuffersInv'
    BY <1>0, <1>4 DEF BuffersInv, BuffersMatchSession, handle_session_closed
  <2> QED BY <2>1, <2>2
<1> QED BY <1>1, <1>2, <1>3, <1>4

(* The remaining steps of handle_session_ok. *)
LEMMA EgressLemma ==
  ASSUME SessionInv, EgressStep
  PROVE  SessionInv'
<1> SUFFICES SessionTypeOK' /\ BuffersInv'
  BY DEF SessionInv, CloseInv, EgressStep, OkConnected, OkTerm, OkHeaderTerm,
         OkHeaderSid, OkKeepalive, disconnectVars
<1> SessionTypeOK /\ BuffersInv
  BY DEF SessionInv
<1> USE DEF fieldVars, bufferVars, disconnectVars
<1>0. event.term \in Int /\ event.leader \in Int
  BY DEF SessionTypeOK, Event
<1>1. CASE OkConnected
  <2>1. SessionTypeOK'
    BY <1>1 DEF SessionTypeOK, OkConnected, EgressPc
  <2>2. BuffersInv'
    BY <1>1 DEF BuffersInv, BuffersMatchSession, OkConnected
  <2> QED BY <2>1, <2>2
<1>2. CASE OkTerm
  <2>1. SessionTypeOK'
    BY <1>0, <1>2 DEF SessionTypeOK, OkTerm, EgressPc
  <2>2. BuffersInv'
    BY <1>2 DEF BuffersInv, BuffersMatchSession, OkTerm
  <2> QED BY <2>1, <2>2
<1>3. CASE OkHeaderTerm
  <2>1. SessionTypeOK'
    BY <1>3 DEF SessionTypeOK, OkHeaderTerm, EgressPc, Buffer
  <2>2. BuffersInv'
    BY <1>3 DEF SessionTypeOK, Buffer, BuffersInv, BuffersMatchSession, OkHeaderTerm
  <2> QED BY <2>1, <2>2
<1>4. CASE OkHeaderSid
  <2>1. SessionTypeOK'
    BY <1>4 DEF SessionTypeOK, OkHeaderSid, EgressPc, Buffer
  <2>2. BuffersInv'
    BY <1>4 DEF SessionTypeOK, Buffer, BuffersInv, BuffersMatchSession, OkHeaderSid
  <2> QED BY <2>1, <2>2
<1>5. CASE OkKeepalive
  <2>1. SessionTypeOK'
    BY <1>5 DEF SessionTypeOK, OkKeepalive, EgressPc, Buffer, NoEvent, Event, EventCode
  <2>2. session_id_ # -1 =>
          session_header_buffer_ = [term |-> leadership_term_id_, sid |-> session_id_]
    BY <1>5 DEF SessionTypeOK, Buffer, BuffersInv, OkKeepalive
  <2>3. BuffersInv'
    BY <1>5, <2>2 DEF BuffersInv, BuffersMatchSession, OkKeepalive
  <2> QED BY <2>1, <2>3
<1> QED BY <1>1, <1>2, <1>3, <1>4, <1>5 DEF EgressStep

(* Entering disconnect(). *)
LEMMA DisconnectBeginLemma ==
  ASSUME SessionInv, DisconnectBegin
  PROVE  SessionInv'
<1> SUFFICES SessionTypeOK' /\ BuffersInv' /\ CloseInv'
  BY DEF SessionInv
<1> SessionTypeOK /\ BuffersInv /\ CloseInv
  BY DEF SessionInv
<1> USE DEF fieldVars, bufferVars, egressVars
<1>1. SessionTypeOK'
  BY CloseAttemptsAssumption DEF SessionTypeOK, DisconnectBegin, DisconnectPc
<1>2. BuffersInv'
  BY BuffersUntouched DEF DisconnectBegin
<1>3. CloseInv'
  BY CloseAttemptsAssumption DEF DisconnectBegin, CloseInv
<1> QED BY <1>1, <1>2, <1>3

(* The steps of disconnect() that need no failure of the environment. *)
LEMMA DisconnectLemma ==
  ASSUME SessionInv, DisconnectStep
  PROVE  SessionInv'
<1> SUFFICES SessionTypeOK' /\ BuffersInv' /\ CloseInv'
  BY DEF SessionInv
<1> SessionTypeOK /\ BuffersInv /\ CloseInv
  BY DEF SessionInv
<1> USE DEF fieldVars, bufferVars, egressVars
<1>1. CASE CloseRefused
  <2>1. closeLeft' \in 0..CloseAttempts /\ CloseInv'
    BY <1>1, CloseAttemptsAssumption DEF SessionTypeOK, CloseRefused, CloseFails, CloseInv
  <2>2. SessionTypeOK'
    BY <1>1, <2>1 DEF SessionTypeOK, CloseRefused, CloseFails, DisconnectPc
  <2>3. BuffersInv'
    BY <1>1, BuffersUntouched DEF CloseRefused
  <2> QED BY <2>1, <2>2, <2>3
<1>2. CASE CloseAccepted
  <2>1. SessionTypeOK'
    BY <1>2 DEF SessionTypeOK, CloseAccepted, DisconnectPc
  <2>2. BuffersInv'
    BY <1>2, BuffersUntouched DEF CloseAccepted
  <2> QED BY <1>2, <2>1, <2>2 DEF CloseInv, CloseAccepted
<1>3. CASE ResetPublication
  <2>1. SessionTypeOK'
    BY <1>3 DEF SessionTypeOK, ResetPublication, DisconnectPc, Publication
  <2>2. BuffersInv'
    BY <1>3, BuffersUntouched DEF ResetPublication
  <2> QED BY <1>3, <2>1, <2>2 DEF CloseInv, ResetPublication
<1>4. CASE ClearConnected
  <2>1. SessionTypeOK'
    BY <1>4 DEF SessionTypeOK, ClearConnected, DisconnectPc
  <2>2. BuffersInv'
    BY <1>4, BuffersUntouched DEF ClearConnected
  <2> QED BY <1>4, <2>1, <2>2 DEF CloseInv, ClearConnected
<1>5. CASE ClearSession
  <2>1. SessionTypeOK'
    BY <1>5 DEF SessionTypeOK, ClearSession, DisconnectPc
  <2>2. BuffersInv'
    BY <1>5 DEF BuffersInv, BuffersMatchSession, ClearSession
  <2> QED BY <1>5, <2>1, <2>2 DEF CloseInv, ClearSession
<1> QED BY <1>1, <1>2, <1>3, <1>4, <1>5 DEF DisconnectStep

(* An offer of the close request that fails. *)
LEMMA CloseNotAcceptedLemma ==
  ASSUME SessionInv, NEW code, CloseNotAccepted(code)
  PROVE  SessionInv'
<1> SUFFICES SessionTypeOK' /\ BuffersInv' /\ CloseInv'
  BY DEF SessionInv
<1> SessionTypeOK /\ BuffersInv /\ CloseInv
  BY DEF SessionInv
<1> USE DEF fieldVars, bufferVars, egressVars
<1>1. closeLeft' \in 0..CloseAttempts /\ CloseInv'
  BY CloseAttemptsAssumption DEF SessionTypeOK, CloseNotAccepted, CloseFails, CloseInv
<1>2. connected_' \in BOOLEAN
  BY DEF SessionTypeOK, CloseNotAccepted, handle_offer_failure, ConnectedAfter,
         is_connection_loss_failure
<1>3. SessionTypeOK'
  BY <1>1, <1>2 DEF SessionTypeOK, CloseNotAccepted, CloseFails, DisconnectPc
<1>4. BuffersInv'
  BY BuffersUntouched DEF CloseNotAccepted
<1> QED BY <1>1, <1>3, <1>4

(* The publication drops or returns. *)
LEMMA PublicationLemma ==
  ASSUME SessionInv, PublicationDrops \/ PublicationReturns
  PROVE  SessionInv'
<1> SUFFICES SessionTypeOK' /\ BuffersInv' /\ CloseInv'
  BY DEF SessionInv
<1> SessionTypeOK /\ BuffersInv /\ CloseInv
  BY DEF SessionInv
<1> USE DEF fieldVars, bufferVars, egressVars, disconnectVars
<1>1. SessionTypeOK'
  BY DEF SessionTypeOK, PublicationDrops, PublicationReturns, Publication
<1>2. BuffersInv'
  BY BuffersUntouched DEF PublicationDrops, PublicationReturns
<1>3. CloseInv'
  BY DEF CloseInv, PublicationDrops, PublicationReturns
<1> QED BY <1>1, <1>2, <1>3
=============================================================================

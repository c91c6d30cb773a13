------------------------------ MODULE Session ------------------------------
(***************************************************************************)
(* The fields of SessionManager::Impl that its threads share, the handlers *)
(* of the session events that the egress polling thread runs, and          *)
(* disconnect().  SessionConnect adds the connect() loop and the cluster   *)
(* that answers it; SessionSend adds the threads that offer messages.      *)
(*                                                                         *)
(* A handler is split into steps wherever another thread can see its       *)
(* fields half written: session_id_, leadership_term_id_ and the two       *)
(* buffers are plain fields that no lock protects.                         *)
(***************************************************************************)
EXTENDS Integers

CONSTANT CloseAttempts   \* offers of SessionCloseRequest in disconnect() (3)

ASSUME CloseAttemptsAssumption == CloseAttempts \in Nat \ {0}

VARIABLES
  session_id_,               \* -1 while there is no session
  connected_,
  leadership_term_id_,       \* -1 until the first SessionEvent OK
  leader_member_id_,
  redirected_to_member_id_,  \* -1 when no redirect is pending
  ingress_publication_,      \* "none" (null), "down" or "up" (isConnected())
  session_header_buffer_,    \* the two fields of the pre-built header
  keepalive_buffer_,         \* the two fields of the pre-built keepalive
  egressPc,                  \* what the egress thread writes next
  event,                     \* the SessionEvent it is handling
  disconnectPc,              \* where the thread in disconnect() is
  closeLeft                  \* attempts left to send SessionCloseRequest

fieldVars == <<session_id_, connected_, leadership_term_id_, leader_member_id_>>
bufferVars == <<session_header_buffer_, keepalive_buffer_>>
egressVars == <<egressPc, event>>
disconnectVars == <<disconnectPc, closeLeft>>

sessionVars == <<fieldVars, redirected_to_member_id_, ingress_publication_,
                 bufferVars, egressVars, disconnectVars>>

Buffer == [term : Int, sid : Int]
EventCode == {"OK", "ERROR", "REDIRECT", "AUTHENTICATION_REJECTED", "CLOSED"}
Event == [code : EventCode, sid : Int, term : Int, leader : Int]
NoEvent == [code |-> "CLOSED", sid |-> -1, term |-> -1, leader |-> -1]

Publication == {"none", "down", "up"}
EgressPc == {"idle", "connected", "term", "header_term", "header_sid", "keepalive"}
DisconnectPc == {"idle", "close", "reset", "clear_connected", "clear_session"}

SessionTypeOK ==
  /\ session_id_ \in Int
  /\ connected_ \in BOOLEAN
  /\ leadership_term_id_ \in Int
  /\ leader_member_id_ \in Int
  /\ redirected_to_member_id_ \in Int
  /\ ingress_publication_ \in Publication
  /\ session_header_buffer_ \in Buffer
  /\ keepalive_buffer_ \in Buffer
  /\ egressPc \in EgressPc
  /\ event \in Event
  /\ disconnectPc \in DisconnectPc
  /\ closeLeft \in 0..CloseAttempts

SessionInit ==
  /\ session_id_ = -1
  /\ connected_ = FALSE
  /\ leadership_term_id_ = -1
  /\ leader_member_id_ = 0
  /\ redirected_to_member_id_ = -1
  /\ ingress_publication_ = "none"
  /\ session_header_buffer_ = [term |-> 0, sid |-> 0]
  /\ keepalive_buffer_ = [term |-> 0, sid |-> 0]
  /\ egressPc = "idle"
  /\ event = NoEvent
  /\ disconnectPc = "idle"
  /\ closeLeft = 0

is_connected ==
  /\ connected_
  /\ ingress_publication_ = "up"
  /\ session_id_ > 0
  /\ leadership_term_id_ > 0

-----------------------------------------------------------------------------
(* What Publication::offer answers when it does not accept a message.      *)

OfferFailureCode == {"NotConnected", "BackPressured", "AdminAction",
                     "PublicationClosed", "MaxPositionExceeded", "DriverError",
                     "Unknown"}

is_transient_failure(code) == code \in {"BackPressured", "AdminAction"}

is_connection_loss_failure(code) ==
  code \in {"NotConnected", "PublicationClosed", "MaxPositionExceeded", "DriverError"}

(* The new value of connected_ after handle_offer_failure, which calls     *)
(* handle_connection_loss for the codes that mean a lost connection.       *)
ConnectedAfter(code) == connected_ /\ ~is_connection_loss_failure(code)

handle_offer_failure(code) == connected_' = ConnectedAfter(code)

(* Mutant of NotifiesLoss: the callback does not depend on the exchange. *)
NotifiesLoss_Always(code) == is_connection_loss_failure(code)

(* handle_connection_loss calls connection_state_callback_(false) only if  *)
(* its exchange(false) found connected_ set.                               *)
NotifiesLoss(code) == connected_ /\ is_connection_loss_failure(code)

-----------------------------------------------------------------------------
(* The egress thread: handle_session_event and its handlers.  No handler   *)
(* compares the event with the request it answers.                         *)

handle_session_redirect(e) ==
  /\ redirected_to_member_id_' = e.leader
  /\ leader_member_id_' = e.leader
  /\ UNCHANGED <<session_id_, connected_, leadership_term_id_, egressVars>>

handle_session_error(e) ==
  /\ connected_' = FALSE
  /\ UNCHANGED <<session_id_, leadership_term_id_, leader_member_id_,
                 redirected_to_member_id_, egressVars>>

handle_session_closed(e) ==
  /\ connected_' = FALSE
  /\ session_id_' = -1
  /\ UNCHANGED <<leadership_term_id_, leader_member_id_,
                 redirected_to_member_id_, egressVars>>

(* The first assignment of handle_session_ok; the others are the steps     *)
(* OkConnected .. OkKeepalive below.                                       *)
handle_session_ok(e) ==
  /\ session_id_' = e.sid
  /\ egressPc' = "connected"
  /\ event' = e
  /\ UNCHANGED <<connected_, leadership_term_id_, leader_member_id_,
                 redirected_to_member_id_>>

handle_session_event(e) ==
  /\ egressPc = "idle"
  /\ \/ e.code = "OK" /\ handle_session_ok(e)
     \/ e.code = "REDIRECT" /\ handle_session_redirect(e)
     \/ e.code \in {"ERROR", "AUTHENTICATION_REJECTED"} /\ handle_session_error(e)
     \/ e.code = "CLOSED" /\ handle_session_closed(e)
  /\ UNCHANGED <<ingress_publication_, bufferVars, disconnectVars>>

OkConnected ==
  /\ egressPc = "connected"
  /\ connected_' = TRUE
  /\ egressPc' = "term"
  /\ UNCHANGED <<session_id_, leadership_term_id_, leader_member_id_,
                 redirected_to_member_id_, ingress_publication_, bufferVars,
                 event, disconnectVars>>

OkTerm ==
  /\ egressPc = "term"
  /\ leadership_term_id_' = event.term
  /\ leader_member_id_' = event.leader
  /\ egressPc' = "header_term"
  /\ UNCHANGED <<session_id_, connected_, redirected_to_member_id_,
                 ingress_publication_, bufferVars, event, disconnectVars>>

(* update_session_header writes the term, then the session id.             *)
OkHeaderTerm ==
  /\ egressPc = "header_term"
  /\ session_header_buffer_' = [session_header_buffer_ EXCEPT !.term = leadership_term_id_]
  /\ egressPc' = "header_sid"
  /\ UNCHANGED <<fieldVars, redirected_to_member_id_, ingress_publication_,
                 keepalive_buffer_, event, disconnectVars>>

(* Mutant of OkHeaderSid: the session id of the header is not refreshed. *)
OkHeaderSid_Stale ==
  /\ egressPc = "header_sid"
  /\ egressPc' = "keepalive"
  /\ UNCHANGED <<fieldVars, redirected_to_member_id_, ingress_publication_,
                 bufferVars, event, disconnectVars>>

OkHeaderSid ==
  /\ egressPc = "header_sid"
  /\ session_header_buffer_' = [session_header_buffer_ EXCEPT !.sid = session_id_]
  /\ egressPc' = "keepalive"
  /\ UNCHANGED <<fieldVars, redirected_to_member_id_, ingress_publication_,
                 keepalive_buffer_, event, disconnectVars>>

(* update_keepalive_buffer, then connection_state_callback_(true).         *)
OkKeepalive ==
  /\ egressPc = "keepalive"
  /\ keepalive_buffer_' = [term |-> leadership_term_id_, sid |-> session_id_]
  /\ egressPc' = "idle"
  /\ event' = NoEvent
  /\ UNCHANGED <<fieldVars, redirected_to_member_id_, ingress_publication_,
                 session_header_buffer_, disconnectVars>>

EgressStep == OkConnected \/ OkTerm \/ OkHeaderTerm \/ OkHeaderSid \/ OkKeepalive

-----------------------------------------------------------------------------
(* disconnect(), by the user's thread, the signal handler, the Aeron error *)
(* handler or the auto-reconnect thread.                                   *)

should_send_close == session_id_ > 0 /\ leadership_term_id_ > 0

DisconnectBegin ==
  /\ disconnectPc = "idle"
  /\ \/ /\ should_send_close
        /\ \/ ingress_publication_ = "up"
           \/ ingress_publication_ = "down" /\ connected_
        /\ disconnectPc' = "close"
        /\ closeLeft' = CloseAttempts
     \/ /\ \/ ~should_send_close
           \/ ingress_publication_ = "none"
           \/ ingress_publication_ = "down" /\ ~connected_
        /\ disconnectPc' = "reset"
        /\ UNCHANGED closeLeft
  /\ UNCHANGED <<fieldVars, redirected_to_member_id_, ingress_publication_,
                 bufferVars, egressVars>>

(* One send_raw_message of the close request is refused or not accepted.   *)
CloseFails ==
  /\ closeLeft' = closeLeft - 1
  /\ disconnectPc' = IF closeLeft = 1 THEN "reset" ELSE "close"

CloseRefused ==
  /\ disconnectPc = "close"
  /\ ~is_connected
  /\ CloseFails
  /\ UNCHANGED <<fieldVars, redirected_to_member_id_, ingress_publication_,
                 bufferVars, egressVars>>

CloseNotAccepted(code) ==
  /\ disconnectPc = "close"
  /\ is_connected
  /\ handle_offer_failure(code)
  /\ CloseFails
  /\ UNCHANGED <<session_id_, leadership_term_id_, leader_member_id_,
                 redirected_to_member_id_, ingress_publication_,
                 bufferVars, egressVars>>

CloseAccepted ==
  /\ disconnectPc = "close"
  /\ is_connected
  /\ disconnectPc' = "reset"
  /\ UNCHANGED <<fieldVars, redirected_to_member_id_, ingress_publication_,
                 bufferVars, egressVars, closeLeft>>

(* Mutant of ResetPublication: the publication stays open. *)
ResetPublication_Kept ==
  /\ disconnectPc = "reset"
  /\ disconnectPc' = "clear_connected"
  /\ UNCHANGED <<fieldVars, redirected_to_member_id_, ingress_publication_,
                 bufferVars, egressVars, closeLeft>>

ResetPublication ==
  /\ disconnectPc = "reset"
  /\ ingress_publication_' = "none"
  /\ disconnectPc' = "clear_connected"
  /\ UNCHANGED <<fieldVars, redirected_to_member_id_, bufferVars, egressVars,
                 closeLeft>>

ClearConnected ==
  /\ disconnectPc = "clear_connected"
  /\ connected_' = FALSE
  /\ disconnectPc' = "clear_session"
  /\ UNCHANGED <<session_id_, leadership_term_id_, leader_member_id_,
                 redirected_to_member_id_, ingress_publication_, bufferVars,
                 egressVars, closeLeft>>

ClearSession ==
  /\ disconnectPc = "clear_session"
  /\ session_id_' = -1
  /\ disconnectPc' = "idle"
  /\ UNCHANGED <<connected_, leadership_term_id_, leader_member_id_,
                 redirected_to_member_id_, ingress_publication_, bufferVars,
                 egressVars, closeLeft>>

DisconnectStep ==
  CloseRefused \/ CloseAccepted \/ ResetPublication \/ ClearConnected \/ ClearSession

-----------------------------------------------------------------------------
(* External: the media driver loses and regains the connection of the      *)
(* ingress publication.                                                    *)

PublicationDrops ==
  /\ ingress_publication_ = "up"
  /\ ingress_publication_' = "down"
  /\ UNCHANGED <<fieldVars, redirected_to_member_id_, bufferVars, egressVars,
                 disconnectVars>>

PublicationReturns ==
  /\ ingress_publication_ = "down"
  /\ ingress_publication_' = "up"
  /\ UNCHANGED <<fieldVars, redirected_to_member_id_, bufferVars, egressVars,
                 disconnectVars>>

-----------------------------------------------------------------------------
(* Whenever the egress thread is not inside handle_session_ok, a session   *)
(* that the fields describe is the one that both pre-built buffers carry:  *)
(* no interleaving of disconnect() or of another event with the OK handler *)
(* leaves a message header of one session beside the id of another.        *)
BuffersMatchSession ==
  (egressPc = "idle" /\ session_id_ # -1) =>
     /\ session_header_buffer_ = [term |-> leadership_term_id_, sid |-> session_id_]
     /\ keepalive_buffer_ = [term |-> leadership_term_id_, sid |-> session_id_]
=============================================================================

------------------------------ MODULE HmacAuth ------------------------------
(***************************************************************************)
(* The signature check in front of both POST handlers,                     *)
(* api/internal/hmacauth/middleware.go.  A message carries the timestamp   *)
(* its sender put on it, in seconds, and a signature; the signature is     *)
(* represented by the secret it was made with over that timestamp and      *)
(* body ("" if there is none).                                             *)
(***************************************************************************)
EXTENDS Config

(* time.Unix(ts, 0): the clock counts finer than the timestamps.           *)
Unix(ts) == ts * Second

FreshAhead(now, ts, maxSkew) == now - Unix(ts) <= maxSkew

(* Neither older nor further ahead than MaxSkew.  Sub saturates at 292     *)
(* years, which no smaller MaxSkew can tell from the difference.           *)
Fresh(now, ts, maxSkew) ==
  /\ now - Unix(ts) <= maxSkew
  /\ Unix(ts) - now <= maxSkew

ComputeSignature(secret, message) == secret

(* verify without its error texts: every error is answered 401.            *)
Verify(message, now, secret, maxSkew) ==
  secret # "" =>
    /\ message.signature # ""
    /\ message.timestamp.set /\ message.timestamp.parses
    /\ Fresh(now, message.timestamp.n, maxSkew)
    /\ message.signature = ComputeSignature(secret, message)

=============================================================================

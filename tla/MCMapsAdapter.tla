---------------------------- MODULE MCMapsAdapter ----------------------------
(***************************************************************************)
(* Small instances of MapsAdapter for TLC.  Failed probes raise `failures` *)
(* for ever; MaxFailures bounds it, above the threshold by more than the   *)
(* calls that can be in flight.                                            *)
(***************************************************************************)
EXTENDS MapsAdapter

CONSTANTS MaxFailures, q1, q2

MCProceeds(c) == Proceeds(c) /\ circuit'.failures <= MaxFailures
MCNext == (\E c \in Calls : Asks(c) \/ MCProceeds(c)) \/ Tick \/ CleanExpired
MCSpec == Init /\ [][MCNext]_vars /\ (\A c \in Calls : WF_vars(MCProceeds(c))) /\ WF_vars(Tick)

\* Two queries with keys of their own.
OwnKeys == [q \in {q1, q2} |-> q]

\* What an operation of any adapter may throw at the retry service: a lost
\* connection, a client's error.
AnyFailures == {AxiosError("ECONNRESET", 0), AxiosError("ERR_BAD_REQUEST", 400)}

\* What GoogleMapsAdapter's operations throw.
GoogleFailures ==
    {fromGoogleMapsStatus(s) : s \in {"REQUEST_DENIED", "OVER_QUERY_LIMIT", "ZERO_RESULTS",
                                      "INVALID_REQUEST", "UNKNOWN_ERROR"}}
    \cup
    {fromNetworkError(e) : e \in {AxiosError("ECONNABORTED", 0), AxiosError("ECONNRESET", 0),
                                  AxiosError("ERR_BAD_RESPONSE", 500),
                                  AxiosError("ERR_BAD_RESPONSE", 503),
                                  AxiosError("ERR_BAD_REQUEST", 429)}}
=============================================================================

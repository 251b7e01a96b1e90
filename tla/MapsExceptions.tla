--------------------------- MODULE MapsExceptions ---------------------------
(***************************************************************************)
(* The exceptions of the maps adapters (maps.exceptions.ts) as far as the  *)
(* decision to try again can tell them apart: their code, whether the      *)
(* class declares itself worth another try, and the HTTP status found      *)
(* under `error.response`, 0 when there is none.  A MapsException is a     *)
(* NestJS HttpException, whose `response` is the message: it has no status.*)
(* An axios error has no isRetryable; a missing property is false.         *)
(***************************************************************************)
EXTENDS Integers

Error(code, response, isRetryable) ==
    [code |-> code, response |-> response, isRetryable |-> isRetryable]

MapsException(code, isRetryable) == Error(code, 0, isRetryable)
AxiosError(code, response) == Error(code, response, FALSE)

ApiKeyInvalid == MapsException("MAPS_API_KEY_INVALID", FALSE)
QuotaExceeded == MapsException("MAPS_QUOTA_EXCEEDED", TRUE)
LocationNotFound == MapsException("LOCATION_NOT_FOUND", FALSE)
NetworkTimeout == MapsException("NETWORK_TIMEOUT", TRUE)
Unavailable == MapsException("SERVICE_UNAVAILABLE", TRUE)
InvalidData == MapsException("INVALID_DATA", FALSE)
ExternalApi(isRetryable) == MapsException("EXTERNAL_API_ERROR", isRetryable)

fromHttpStatus(status) ==
    CASE status = 400          -> InvalidData
      [] status \in {401, 403} -> ApiKeyInvalid
      [] status = 404          -> LocationNotFound
      [] status = 408          -> NetworkTimeout
      [] status = 429          -> QuotaExceeded
      [] status = 503          -> Unavailable
      [] OTHER                 -> ExternalApi(status >= 500)

fromGoogleMapsStatus(status) ==
    CASE status = "REQUEST_DENIED"                -> ApiKeyInvalid
      [] status = "OVER_QUERY_LIMIT"              -> QuotaExceeded
      [] status \in {"ZERO_RESULTS", "NOT_FOUND"} -> LocationNotFound
      [] status = "INVALID_REQUEST"               -> InvalidData
      [] OTHER                                    -> ExternalApi(TRUE)

\* The interceptor of GoogleMapsAdapter turns every axios error into one of these.
fromNetworkError(e) ==
    IF e.code \in {"ECONNABORTED", "ETIMEDOUT"} THEN NetworkTimeout
    ELSE IF e.response # 0 THEN fromHttpStatus(e.response)
    ELSE Unavailable

-----------------------------------------------------------------------------
(* What RetryService asks of an error (is-retryable.helper.ts). *)

RetryableNetworkCodes == {"ECONNRESET", "ENOTFOUND", "ESOCKETTIMEDOUT", "ETIMEDOUT",
                          "ECONNREFUSED", "EHOSTUNREACH", "EPIPE", "EAI_AGAIN"}

isGenericRetryableError(e) ==
    \/ e.code \in RetryableNetworkCodes
    \/ e.response >= 500
    \/ e.response \in {408, 429}
=============================================================================

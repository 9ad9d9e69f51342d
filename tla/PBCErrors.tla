------------------------------ MODULE PBCErrors ------------------------------
(***************************************************************************)
(* The error types of utils/errors.go and the HTTP status each is answered *)
(* with.  "NONE" stands for Go's nil error.                                *)
(***************************************************************************)
EXTENDS Naturals

BadRequestErrors == {"MISSING_KEY", "RECORD_EXISTS", "PUT_MAX_NUM_VALUES",
    "PUT_BAD_REQUEST", "NEGATIVE_TTL", "MALFORMED_XML",
    "UNSUPPORTED_DATA_TO_STORE", "MISSING_VALUE", "BAD_PAYLOAD_SIZE"}
NotFoundErrors == {"KEY_NOT_FOUND", "KEY_LENGTH"}
InternalErrors == {"UNKNOWN_STORED_DATA_TYPE", "GET_INTERNAL_SERVER",
    "PUT_INTERNAL_SERVER", "MARSHAL_RESPONSE"}
TimeoutErrors  == {"PUT_DEADLINE_EXCEEDED"}

PBCError == BadRequestErrors \cup NotFoundErrors \cup InternalErrors \cup TimeoutErrors

HTTPDependencyTimeout == 597

\* errToStatusCodes, with the 200 of an answer without error.
StatusCode(err) ==
    IF err = "NONE" THEN 200
    ELSE IF err \in BadRequestErrors THEN 400
    ELSE IF err \in NotFoundErrors THEN 404
    ELSE IF err \in TimeoutErrors THEN HTTPDependencyTimeout
    ELSE 500
=============================================================================

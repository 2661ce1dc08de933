------------------------------- MODULE Errors -------------------------------
(***************************************************************************)
(* Errors on their way from client-go to a caller: mapError of             *)
(* internal/kube, ErrorCode and PublicError of internal/model, respond of  *)
(* internal/httpapi and convertError of internal/grpcapi.                  *)
(*                                                                         *)
(* A Go error is a chain.  What matters is what errors.As and errors.Is    *)
(* find in it: an error of the application (its code), a context error and *)
(* a status of the Kubernetes API.                                         *)
(***************************************************************************)
Codes == {"InvalidArgument", "NotFound", "Conflict", "Forbidden", "Unavailable",
          "FailedPrecondition", "Internal"}

Contexts == {"Canceled", "DeadlineExceeded"}

Statuses == {"NotFound", "AlreadyExists", "Conflict", "Forbidden", "Unauthorized",
             "Invalid", "BadRequest", "Other"}

Error == [own : Codes \cup {"none"}, ctx : Contexts \cup {"none"},
          api : Statuses \cup {"none"}]

NoError == [own |-> "none", ctx |-> "none", api |-> "none"]

(* Where errors begin: model.E without a cause, a context, the API server. *)
RawErrors ==
    {[NoError EXCEPT !.own = c] : c \in Codes} \cup
    {[NoError EXCEPT !.ctx = c] : c \in Contexts} \cup
    {[NoError EXCEPT !.api = s] : s \in Statuses}

(* The code that a status of the API server stands for. *)
MappedCode(status) ==
    CASE status = "NotFound"                        -> "NotFound"
      [] status \in {"AlreadyExists", "Conflict"}   -> "Conflict"
      [] status \in {"Forbidden", "Unauthorized"}   -> "Forbidden"
      [] status \in {"Invalid", "BadRequest"}       -> "InvalidArgument"
      [] OTHER                                      -> "Unavailable"

(* Mutants of mapError: an error of the application is mapped once more; a *)
(* context error is wrapped like any other.                                *)
MapErrorAgain(e) ==
    IF e.ctx # "none" THEN e ELSE [e EXCEPT !.own = MappedCode(e.api)]

MapErrorContext(e) ==
    IF e.own # "none" THEN e ELSE [e EXCEPT !.own = MappedCode(e.api)]

(* mapError; a caller may well apply it to an error that is mapped already.*)
MapError(e) ==
    IF e.own # "none" \/ e.ctx # "none" THEN e ELSE [e EXCEPT !.own = MappedCode(e.api)]

ErrorCode(e) ==
    CASE e.own # "none" -> e.own
      [] e.own = "none" /\ e.ctx # "none" -> "Unavailable"
      [] OTHER -> "Internal"

(* Which text is made public: the application's own, or a fixed one. *)
PublicError(e) ==
    CASE e.own # "none" -> "own"
      [] e.own = "none" /\ e.ctx = "DeadlineExceeded" -> "timed out"
      [] e.own = "none" /\ e.ctx = "Canceled" -> "canceled"
      [] OTHER -> "internal server error"

(* respond: the HTTP status of a failure. *)
HTTPStatus(e) ==
    LET status == [InvalidArgument |-> "400", NotFound |-> "404", Conflict |-> "409",
                   Forbidden |-> "403", Unavailable |-> "503", FailedPrecondition |-> "412",
                   Internal |-> "500"]
    IN  status[ErrorCode(e)]

(* convertError: the gRPC code of a failure. *)
GRPCCode(e) ==
    LET code == [InvalidArgument |-> "InvalidArgument", NotFound |-> "NotFound",
                 Conflict |-> "Aborted", Forbidden |-> "PermissionDenied",
                 Unavailable |-> "Unavailable", FailedPrecondition |-> "FailedPrecondition",
                 Internal |-> "Internal"]
    IN  IF e.ctx # "none" THEN e.ctx ELSE code[ErrorCode(e)]

GRPCText(e) ==
    CASE e.ctx = "Canceled" -> "canceled"
      [] e.ctx = "DeadlineExceeded" -> "timed out"
      [] OTHER -> PublicError(e)
=============================================================================

----------------------------- MODULE Responses ------------------------------
(***************************************************************************)
(* What handlers answer with: from what a backend reports to the status a  *)
(* client sees (error.rs, repository/error.rs, handlers/error.rs), as      *)
(* tables; the response types of responses.rs and handlers/response.rs;    *)
(* the errors a handler or a repository makes itself; and a collection     *)
(* listed page by page (handlers/query.rs, repository/pagination.rs).      *)
(***************************************************************************)
EXTENDS Integers, FiniteSets, FiniteSetsExt, TLC

-----------------------------------------------------------------------------
(* Errors.  A handler that returns Error goes through into_response; one   *)
(* that uses the repository traits goes through RepositoryError and        *)
(* ApiError.                                                               *)

\* DatabaseErrorKind, for each error of the three drivers.  libsql and SurrealDB
\* are told apart by words of the message, in this order.
sqlx_error ==
    [RowNotFound |-> "NotFound", PoolTimedOut |-> "PoolExhausted", PoolClosed |-> "ConnectionFailed",
     Protocol |-> "QueryFailed", Configuration |-> "Configuration", Io |-> "ConnectionFailed",
     Tls |-> "ConnectionFailed", TypeNotFound |-> "TypeConversion", ColumnNotFound |-> "QueryFailed",
     ColumnIndexOutOfBounds |-> "QueryFailed", ColumnDecode |-> "TypeConversion",
     Decode |-> "TypeConversion", AnyDriverError |-> "QueryFailed", Migrate |-> "QueryFailed",
     Constraint |-> "ConstraintViolation", Database |-> "QueryFailed",
     WorkerCrashed |-> "ConnectionFailed", Unknown |-> "Other"]

libsql_error ==
    [constraint |-> "ConstraintViolation", no_such_table |-> "QueryFailed", timed_out |-> "Timeout",
     connection |-> "ConnectionFailed", permission_denied |-> "PermissionDenied",
     sync |-> "SyncFailed", unknown |-> "Other"]

surrealdb_error ==
    [already_exists |-> "ConstraintViolation", not_found |-> "NotFound", timed_out |-> "Timeout",
     connect |-> "ConnectionFailed", denied |-> "PermissionDenied", signin |-> "ConnectionFailed",
     syntax |-> "QueryFailed", unknown |-> "Other"]

\* IntoResponse for Error::Database.
database_status(kind) ==
    CASE kind = "NotFound" -> 404 [] kind = "ConstraintViolation" -> 409
      [] kind = "Timeout" -> 504 [] kind = "PermissionDenied" -> 403 [] OTHER -> 500

\* IntoResponse for the other errors.
into_response ==
    [Config |-> 500, Redis |-> 500, Nats |-> 500, ClickHouse |-> 500, Paseto |-> 401, Auth |-> 401,
     Jwt |-> 401, Http |-> 400, Io |-> 500, Unauthorized |-> 401, Forbidden |-> 403,
     NotFound |-> 404, BadRequest |-> 400, RateLimitExceeded |-> 429, Conflict |-> 409,
     ValidationError |-> 422, NotSupported |-> 501, External |-> 502, Internal |-> 500,
     Tls |-> 500, Other |-> 500, Session |-> 500, Audit |-> 500, AccountLocked |-> 423]

\* From<DatabaseError> for RepositoryError.
repository_kind(kind) ==
    CASE kind \in {"NotFound", "ConstraintViolation", "ConnectionFailed", "Timeout"} -> kind
      [] kind = "PoolExhausted" -> "ConnectionFailed" [] OTHER -> "DatabaseError"

\* From<RepositoryError> for ApiError, and ApiErrorKind::status_code.
api_kind ==
    [NotFound |-> "NotFound", AlreadyExists |-> "AlreadyExists", ConstraintViolation |-> "Conflict",
     ValidationFailed |-> "ValidationFailed", ConnectionFailed |-> "ServiceUnavailable",
     Timeout |-> "ServiceUnavailable", DatabaseError |-> "InternalError",
     SerializationError |-> "InternalError", Other |-> "InternalError"]

status_code ==
    [NotFound |-> 404, AlreadyExists |-> 409, Conflict |-> 409, ValidationFailed |-> 422,
     Unauthorized |-> 401, Forbidden |-> 403, BadRequest |-> 400, InternalError |-> 500,
     ServiceUnavailable |-> 503]

\* The two ways a handler reports a database error.
Direct(kind) == database_status(kind)
ThroughRepository(kind) == status_code[api_kind[repository_kind(kind)]]

\* is_server_error: what the circuit breaker counts as a failure.
is_server_error(status) == status >= 500

-----------------------------------------------------------------------------
(* Answers of a handler.                                                   *)

\* IntoResponse of the response types.  Conflict and ValidationError are
\* answers of a handler too.
Success == 200
Created == 201
Accepted == 202
NoContent == 204
Conflict == 409
ValidationError == 422
ItemResponse == 200

Responses ==
    [Success |-> Success, Created |-> Created, Accepted |-> Accepted, NoContent |-> NoContent,
     Conflict |-> Conflict, ValidationError |-> ValidationError, ItemResponse |-> ItemResponse]

\* The kinds the constructors of ApiError and of RepositoryError give.
ApiError ==
    [not_found |-> "NotFound", already_exists |-> "AlreadyExists", validation_failed |-> "ValidationFailed",
     bad_request |-> "BadRequest", unauthorized |-> "Unauthorized", forbidden |-> "Forbidden",
     conflict |-> "Conflict", internal |-> "InternalError", service_unavailable |-> "ServiceUnavailable"]

RepositoryError ==
    [repository_not_found |-> "NotFound", repository_already_exists |-> "AlreadyExists",
     repository_validation_failed |-> "ValidationFailed", constraint_violation |-> "ConstraintViolation",
     connection_failed |-> "ConnectionFailed", timeout |-> "Timeout", database_error |-> "DatabaseError",
     serialization_error |-> "SerializationError"]

-----------------------------------------------------------------------------
(* Lists.  Unset is an absent query parameter.                             *)

Unset == -1
DEFAULT_PER_PAGE == 20
MAX_PER_PAGE == 100

\* ListQuery: a page of 0 is the first one, and a size is clamped.
page_number(q) == IF q.page = Unset THEN 1 ELSE Max({q.page, 1})

items_per_page(q) ==
    IF q.per_page = Unset THEN DEFAULT_PER_PAGE ELSE Min({Max({q.per_page, 1}), MAX_PER_PAGE})

\* Pagination: the rows a repository is asked for.
Pagination(number, size) == [offset |-> (number - 1) * size, limit |-> size]

\* find_all, of an application's repository: of total rows those of the page.
find_all(total, p) == Max({Min({total - p.offset, p.limit}), 0})

calculate_total_pages(total, per_page) == (total + per_page - 1) \div per_page

PaginationMeta(page, per_page, total) ==
    LET pages == calculate_total_pages(total, Max({per_page, 1}))
    IN  [page |-> page, per_page |-> Max({per_page, 1}), total |-> total, total_pages |-> pages,
         has_next |-> page < pages, has_prev |-> page > 1]

\* The rows of a listing and what it says of them.
NoList == [rows |-> 0, meta |-> PaginationMeta(1, 1, 0)]
ListResponse(q, total) ==
    [rows |-> find_all(total, Pagination(page_number(q), items_per_page(q))),
     meta |-> PaginationMeta(page_number(q), items_per_page(q), total)]

=============================================================================

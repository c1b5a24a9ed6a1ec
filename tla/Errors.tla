------------------------------- MODULE Errors -------------------------------
(***************************************************************************)
(* What becomes of an error: handlePrismaError turns an error of Prisma    *)
(* into an exception of Nest, and AllExceptionsFilter turns what reaches   *)
(* it into the status and the errorCode of the answer.  The messages are   *)
(* left out.                                                               *)
(***************************************************************************)
EXTENDS Naturals

ERROR_REGISTRY ==
    [DATABASE_VALIDATION_ERROR |-> [status |-> 400, errorCode |-> "DB_VAL_001"],
     DATABASE_CONFLICT |-> [status |-> 409, errorCode |-> "DB_CON_001"]]

NotFoundCodes == {"P2001", "P2015", "P2025"}
InvalidCodes == {"P2003", "P2004", "P2005", "P2006", "P2007", "P2011", "P2012", "P2013",
                 "P2014", "P2016", "P2017", "P2020"}

PrismaError(code) == [class |-> "prisma", code |-> code]
Http(status) == [class |-> "http", status |-> status]
AppException(entry) == [class |-> "app", entry |-> entry]

handlePrismaError(error) ==
    IF error.class # "prisma" THEN IF error.class \in {"http", "app"} THEN error ELSE Http(500)
    ELSE
    CASE error.code = "P2000" -> AppException(ERROR_REGISTRY.DATABASE_VALIDATION_ERROR)
      [] error.code = "P2034" -> AppException(ERROR_REGISTRY.DATABASE_CONFLICT)
      [] error.code = "P2002" -> Http(409)
      [] error.code \in NotFoundCodes -> Http(404)
      [] error.code \in InvalidCodes -> Http(400)
      [] OTHER -> Http(500)    \* P2024, P2028 and every code without a case

\* The answer of AllExceptionsFilter.
Caught(exception) ==
    CASE exception.class = "app" -> exception.entry
      [] exception.class = "http" -> [status |-> exception.status, errorCode |-> "HTTP_EXCEPTION"]
      [] OTHER -> [status |-> 500, errorCode |-> "INTERNAL_SERVER_ERROR"]

\* What a repository answers whose statement fails with this code.
Failure(code) == Caught(handlePrismaError(PrismaError(code)))
=============================================================================

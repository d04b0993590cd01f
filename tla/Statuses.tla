------------------------------ MODULE Statuses ------------------------------
(***************************************************************************)
(* The statuses of services, the error numbers of the host they are        *)
(* translated to and from, and their names (src/lib/efi/string.c).  A       *)
(* status and an error number are named as the code names them.            *)
(***************************************************************************)
EXTENDS Naturals, FiniteSets

Warnings == {"warn_unknown_glyph", "warn_delete_failure", "warn_write_failure",
             "warn_buffer_too_small", "warn_stale_data", "warn_file_system"}

\* The error numbers that mean each status, as efi_errno_to_status groups them
Meaning ==
  [success |-> {"0"},
   access_denied |-> {"EPERM", "EACCES", "ENOTDIR", "EISDIR", "ECONNREFUSED", "EKEYREVOKED",
                      "EKEYREJECTED"},
   not_found |-> {"ENOENT", "ESRCH", "ENXIO", "ECHILD", "EIDRM", "ENOCSI", "ENOANO", "ENOPKG", "ELIBACC"},
   device_error |-> {"EIO", "EXDEV", "ENODEV", "ENOTTY", "EMLINK", "EOWNERDEAD", "ENOTRECOVERABLE",
                     "ERFKILL", "EDEADLK", "ENOLCK", "ENOTEMPTY", "ELOOP", "EL2NSYNC", "EL3HLT",
                     "EL3RST", "EUNATCH", "EL2HLT", "EBADE", "ENOSTR", "ENOLINK", "ESRMNT"},
   out_of_resources |-> {"E2BIG", "ENOMEM", "ENFILE", "EMFILE", "ENAMETOOLONG", "EXFULL", "ENOSR",
                         "EOVERFLOW", "ELIBMAX", "EUSERS", "EMSGSIZE", "ENOBUFS", "ETOOMANYREFS"},
   invalid_parameter |-> {"EBADF", "EFAULT", "ENOTBLK", "EINVAL", "EDOM", "ERANGE", "ECHRNG", "ELNRNG",
                          "EBADR", "EBADRQC", "EBADSLT", "EBADFD", "EDESTADDRREQ", "ENOTNAM"},
   load_error |-> {"ENOEXEC", "EFBIG", "EBFONT", "ELIBSCN", "ELIBEXEC", "EILSEQ", "EISNAM",
                   "ENOMEDIUM", "EKEYEXPIRED"},
   not_ready |-> {"EAGAIN", "EBUSY", "ETXTBSY", "EADDRINUSE", "EADDRNOTAVAIL", "EINPROGRESS", "ENOKEY"},
   protocol_error |-> {"EPIPE", "ENOMSG", "EADV", "ECOMM", "EPROTO", "EMULTIHOP", "EDOTDOT", "EBADMSG",
                       "ENOTUNIQ", "EREMCHG", "ESTRPIPE", "EPROTOTYPE", "EREMOTEIO"},
   already_started |-> {"EEXIST", "EISCONN", "EALREADY"},
   volume_full |-> {"EDQUOT", "ENOSPC"},
   end_of_file |-> {"ESPIPE", "ENODATA"},
   compromised_data |-> {"EHWPOISON", "ELIBBAD", "ESTALE"},
   write_protected |-> {"EROFS"},
   unsupported |-> {"ENOTSUP", "ENOSYS", "ENOTSOCK", "ENOPROTOOPT", "EPROTONOSUPPORT",
                    "ESOCKTNOSUPPORT", "EPFNOSUPPORT", "EAFNOSUPPORT", "ENAVAIL"},
   timeout |-> {"ETIME", "ETIMEDOUT"},
   no_mapping |-> {"ENONET", "EREMOTE"},
   no_media |-> {"ENETDOWN", "ENETRESET", "EHOSTDOWN", "EMEDIUMTYPE"},
   no_response |-> {"ENETUNREACH", "EHOSTUNREACH"},
   aborted |-> {"ECANCELED", "ECONNABORTED", "ECONNRESET"},
   not_started |-> {"ENOTCONN", "ESHUTDOWN"},
   volume_corrupted |-> {"EUCLEAN"}]

Errnos == {"EINTR", "255"} \cup UNION {Meaning[st] : st \in DOMAIN Meaning}

\* All ones is no status with a name, but an error.
StatusOf(err) ==
  IF \E st \in DOMAIN Meaning : err \in Meaning[st]
  THEN CHOOSE st \in DOMAIN Meaning : err \in Meaning[st] ELSE "all_ones"

Translation ==
  [success |-> "0", security_violation |-> "EPERM", write_protected |-> "EROFS",
   access_denied |-> "EACCES", no_media |-> "ENOMEDIUM", no_response |-> "ENODATA",
   not_found |-> "ENOENT", not_ready |-> "EAGAIN", no_mapping |-> "EFAULT", not_started |-> "ESRCH",
   media_changed |-> "EBUSY", bad_buffer_size |-> "EINVAL", buffer_too_small |-> "EINVAL",
   invalid_language |-> "EINVAL", invalid_parameter |-> "EINVAL", out_of_resources |-> "ENOMEM",
   compromised_data |-> "EUCLEAN", volume_corrupted |-> "EUCLEAN", load_error |-> "EBADF",
   icmp_error |-> "EPROTO", tftp_error |-> "EPROTO", http_error |-> "EPROTO",
   protocol_error |-> "EPROTO", crc_error |-> "ETIMEDOUT", timeout |-> "ETIMEDOUT",
   volume_full |-> "ENOSPC", end_of_file |-> "ENOSTR", end_of_media |-> "ENOSTR",
   already_started |-> "EALREADY", aborted |-> "EINTR", unsupported |-> "ENOSYS",
   device_error |-> "EIO", incompatible_version |-> "ENOTSUP"]

Statuses == DOMAIN Translation \cup Warnings

ErrnoOf(st) == IF st \in DOMAIN Translation THEN Translation[st] ELSE "255"

\* The statuses that have a name, long and short, of their own; for the others
\* the names say that the status is unknown.
Named == Statuses \ {"http_error", "warn_file_system"}
NameOfStatus(st) == IF st \in Named THEN st ELSE "unknown"

\* The code takes a warning for an error, too.
IsError(st) == st # "success"

-----------------------------------------------------------------------------

\* The statuses a host's error number brings back as they were; the others are
\* told as another error.
Kept == {st \in Statuses : StatusOf(ErrnoOf(st)) = st}

\* Success is the only status without an error number and 0 the only number of no
\* error; whatever is translated, and however often, an error stays an error, and
\* each number has one meaning.  What the services answer most is not changed.
StatusesTranslate ==
  /\ \A st \in Statuses : (ErrnoOf(st) = "0") = (st = "success")
  /\ \A err \in Errnos : (StatusOf(err) = "success") = (err = "0")
  /\ \A st \in Statuses : IsError(st) => IsError(StatusOf(ErrnoOf(st)))
  /\ \A st, other \in DOMAIN Meaning : st # other => Meaning[st] \cap Meaning[other] = {}
  /\ DOMAIN Meaning \subseteq Statuses
  /\ {"success", "not_found", "access_denied", "write_protected", "not_ready", "invalid_parameter",
      "out_of_resources", "volume_full", "device_error", "unsupported", "already_started", "timeout",
      "protocol_error", "volume_corrupted"} = Kept
  /\ Cardinality({NameOfStatus(st) : st \in Named}) = Cardinality(Named)
=============================================================================

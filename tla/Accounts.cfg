SPECIFICATION Spec
CONSTANTS Names = {alice}  Passwords = {p, q}  Requests = {r1, r2}
          TokenLife = 2  MaxTime = 4  MaxTokens = 2
INVARIANTS TypeOK OneOwnerPerName StandingIsRecent
CHECK_DEADLOCK FALSE

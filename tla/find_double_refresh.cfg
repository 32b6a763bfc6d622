SPECIFICATION Spec
CONSTANTS
  ann = ann
  bob = bob
  phone = phone
  tablet = tablet
  desk = desk
  q1 = q1
  q2 = q2
  Users = {bob}
  Founders = {bob}
  Clients = {desk}
  Dashboards = {desk}
  UserOf <- Desk
  Tracked = {}
  Slots = {q1, q2}
  MaxTokens = 4
  Bounds <- Neither
  Nobody = Nobody
  NoToken = NoToken
INVARIANTS
  RedeemedOnce
CHECK_DEADLOCK FALSE

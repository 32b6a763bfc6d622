SPECIFICATION Spec
CONSTANTS
  ann = ann
  bob = bob
  phone = phone
  tablet = tablet
  desk = desk
  q1 = q1
  q2 = q2
  Users = {ann, bob}
  Founders = {bob}
  Clients = {phone, tablet, desk}
  Dashboards = {desk}
  UserOf <- Owners
  Tracked = {phone, tablet}
  Slots = {q1, q2}
  MaxTokens = 3
  Bounds <- EitherOr
  Nobody = Nobody
  NoToken = NoToken
SYMMETRY Symmetric
INVARIANTS
  SessionsTypeOK
  OneLivePerSession
  LogoutEndsSession
  StaysSignedIn
  NoFalseAlarm
  DeletedStayOut
  DevicesRecorded
  AnAdminRemains
PROPERTIES
  ImplementsSessionContract
CHECK_DEADLOCK FALSE
